---- MODULE Spec2Model ----
(***************************************************************************)
(* TacticalLite (cs_lite): the per-frame simulation core.                  *)
(*                                                                         *)
(* One iteration of main()'s loop is a sequence of steps, one per call, in *)
(* the order of the source: BeginFrame (dt, ESC), StepInput (ProcessInput),*)
(* StepRound (UpdateRound), StepBot (one iteration of UpdateBots' loop),   *)
(* StepUtility (UpdateUtility), StepMenu (the MATCH_OVER hand-over and the *)
(* MATCH_OVER screen of main) and StepDraw (the menu widgets).             *)
(*                                                                         *)
(* Time is counted in integer ticks.  The float durations of the source    *)
(* (seconds) are represented by tick counts small enough to explore, so    *)
(* their ratios are not those of the source.  Geometry                     *)
(* (positions, rays, line of sight) is an input of each step: the step is  *)
(* given the outcome of the geometric query and does with it what the code *)
(* does.                                                                   *)
(***************************************************************************)
EXTENDS Integers, Sequences, FiniteSets, TLC

VARIABLES
    world,         \* struct World (World.h)
    overTimer,     \* static float overTimer of UpdateRound (RoundManager.h)
    s_brains,      \* static BotBrain s_brains[MAX_PAWNS] (BotAI.h)
    currentState,  \* menu.currentState (AppState)
    dt,            \* main's dt of the current frame
    pc,            \* position in the body of main's loop
    botIdx,        \* loop variable i of UpdateBots
    audioLog,      \* AudioSystem::PlayShoot calls of the current frame
    request,       \* the restart request polled in the current frame, if any
    call           \* the last call made one at a time (SpecFire, SpecThrow)

vars == <<world, overTimer, s_brains, currentState, dt, pc, botIdx, audioLog, request,
          call>>

----------------------------------------------------------------------------
(* Program constants *)

MAX_PAWNS == 6
TEAM_SIZE == 3
MAX_HP == 100
MAX_GRENADES == 16
MAX_SMOKES == 8
MAX_TRACERS == 64
MATCH_WIN_SCORE == 5
FRAG_DAMAGE == 80
\* FRAG_RADIUS = 4.5f, in tenths of a metre
FRAG_RADIUS == 45
BOT_RETREAT_HP == 25
BOT_RECOVER_HP == 50

(* Durations, in ticks.  Source values (seconds): ROUND_TIME_SEC 90,       *)
(* OBJECTIVE_CAPTURE_SEC 10, freeze 3.0, round-over delay 4.0, dt clamp    *)
(* 0.05, 1/BOT_RAYCAST_HZ 0.1, BOT_REACTION_MS/1000 0.25, FRAG_FUSE_SEC    *)
(* 2.5, other fuses 0.8, tracer life 0.06, SMOKE_DURATION_SEC 12,          *)
(* STUN_DURATION_SEC 2.                                                    *)
DT_MAX == 4
ROUND_TIME_SEC == 12
OBJECTIVE_CAPTURE_SEC == 6
FREEZE_SEC == 4
ROUND_OVER_SEC == 4
BOT_VISION_PERIOD == 4
BOT_REACTION == 6
FRAG_FUSE_SEC == 6
OTHER_FUSE_SEC == 4
TRACER_LIFE == 3
SMOKE_DURATION_SEC == 8
STUN_DURATION_SEC == 6
\* hitIndicatorAlpha = 1.0f, in the unit in which it decays by 2.5 per second
HIT_ALPHA_ONE == 3

Pawns == 0 .. (MAX_PAWNS - 1)
playerID == 0

Max(a, b) == IF a > b THEN a ELSE b
Min(a, b) == IF a < b THEN a ELSE b

\* dt * 0.5f (UpdateRound)
Half(d) == d \div 2

(* WEAPON_TABLE, indexed by WeaponID.  cooldown is 60 / fireRateRPM and    *)
(* reload is reloadTimeSec, both in ticks.                                 *)
PISTOL == 0
SMG == 1
RIFLE == 2
SNIPER == 3
SHOTGUN == 4
WeaponIDs == 0 .. 4

WEAPON_TABLE ==
    [k \in WeaponIDs |->
        CASE k = 0 -> [damage |-> 35,  magSize |-> 12, cooldown |-> 2, reload |-> 4,
                       pellets |-> 1, semiAuto |-> TRUE]
          [] k = 1 -> [damage |-> 22,  magSize |-> 25, cooldown |-> 1, reload |-> 5,
                       pellets |-> 1, semiAuto |-> FALSE]
          [] k = 2 -> [damage |-> 30,  magSize |-> 30, cooldown |-> 1, reload |-> 6,
                       pellets |-> 1, semiAuto |-> FALSE]
          [] k = 3 -> [damage |-> 100, magSize |-> 5,  cooldown |-> 4, reload |-> 8,
                       pellets |-> 1, semiAuto |-> TRUE]
          [] k = 4 -> [damage |-> 18,  magSize |-> 6,  cooldown |-> 3, reload |-> 7,
                       pellets |-> 8, semiAuto |-> FALSE]]

\* WeaponState::stats
stats(ws) == WEAPON_TABLE[ws.id]

\* canFire without the test of the reload
canFire_whileReloading(ws) == ws.fireCooldown <= 0 /\ ws.ammoMag > 0

\* WeaponState::canFire
canFire(ws) == ws.fireCooldown <= 0 /\ ws.reloadTimer <= 0 /\ ws.ammoMag > 0

----------------------------------------------------------------------------
(* World helpers *)

\* alivePawnsOnTeam without the test of the alive flag
alivePawnsOnTeam_anyPawn(w, t) == \E i \in Pawns : w.pawns[i].team = t

\* World::alivePawnsOnTeam
alivePawnsOnTeam(w, t) == \E i \in Pawns : w.pawns[i].team = t /\ w.pawns[i].alive

\* World::aliveCount
aliveCount(w, t) == Cardinality({i \in Pawns : w.pawns[i].team = t /\ w.pawns[i].alive})

\* BotBrain{} as InitBotBrains leaves it (the navigation fields are part of
\* the geometry and are not kept)
InitBotBrains ==
    [i \in Pawns |-> [state |-> "PATROL", targetID |-> -1, visionTimer |-> 0,
                      reactionTimer |-> 0, hasSightLine |-> FALSE]]

\* SpawnPawns: every pawn of the array, whatever it was before
SpawnPawns ==
    [i \in Pawns |->
        LET team == IF i < TEAM_SIZE THEN "ATTACK" ELSE "DEFEND"
            wid  == IF team = "ATTACK" THEN RIFLE ELSE SMG
        IN  [id |-> i, team |-> team, isBot |-> (i # playerID), alive |-> TRUE,
             hp |-> MAX_HP, inZone |-> FALSE,
             weapon |-> [id |-> wid, ammoMag |-> WEAPON_TABLE[wid].magSize,
                         ammoReserve |-> WEAPON_TABLE[wid].magSize * 3,
                         reloadTimer |-> 0, fireCooldown |-> 0, isADS |-> FALSE],
             fragCount |-> 1, smokeCount |-> 1, stunCount |-> 1]]

\* a reset that leaves the grenades in flight where they are
ResetRound_keepGrenades(w) ==
    [w EXCEPT !.smokes = <<>>, !.tracers = <<>>,
              !.stun = 0, !.hitIndicatorAlpha = 0,
              !.objective = [captureProgress |-> 0, captured |-> FALSE],
              !.roundTimer = ROUND_TIME_SEC, !.roundState = "WAITING",
              !.freezeTimer = FREEZE_SEC, !.roundWinner = "NONE",
              !.pawns = SpawnPawns]

\* a reset that leaves the winner of the last round standing
ResetRound_keepWinner(w) ==
    [w EXCEPT !.grenades = <<>>, !.smokes = <<>>, !.tracers = <<>>,
              !.stun = 0, !.hitIndicatorAlpha = 0,
              !.objective = [captureProgress |-> 0, captured |-> FALSE],
              !.roundTimer = ROUND_TIME_SEC, !.roundState = "WAITING",
              !.freezeTimer = FREEZE_SEC,
              !.pawns = SpawnPawns]

\* ResetRound, the World part (InitBotBrains is applied by the calling step)
ResetRound(w) ==
    [w EXCEPT !.grenades = <<>>, !.smokes = <<>>, !.tracers = <<>>,
              !.stun = 0, !.hitIndicatorAlpha = 0,
              !.objective = [captureProgress |-> 0, captured |-> FALSE],
              !.roundTimer = ROUND_TIME_SEC, !.roundState = "WAITING",
              !.freezeTimer = FREEZE_SEC, !.roundWinner = "NONE",
              !.pawns = SpawnPawns]

\* a restart that forgets the round number
RestartMatch_keepRound(w) ==
    ResetRound([w EXCEPT !.scoreAttack = 0, !.scoreDefend = 0])

\* The three restart sites: scores and round number, then ResetRound
RestartMatch(w) ==
    ResetRound([w EXCEPT !.scoreAttack = 0, !.scoreDefend = 0, !.roundNumber = 1])

\* World{} as default-constructed, then main's initial ResetRound
World0 ==
    ResetRound([pawns |-> SpawnPawns, grenades |-> <<>>, smokes |-> <<>>,
                tracers |-> <<>>, stun |-> 0, hitIndicatorAlpha |-> 0,
                objective |-> [captureProgress |-> 0, captured |-> FALSE],
                roundState |-> "WAITING", roundTimer |-> ROUND_TIME_SEC,
                freezeTimer |-> FREEZE_SEC, roundWinner |-> "NONE",
                scoreAttack |-> 0, scoreDefend |-> 0, roundNumber |-> 1])

----------------------------------------------------------------------------
(* RoundManager.h: UpdateRound *)

\* the loop without the test of the alive flag
anyAttackerInZone_anyPawn(w) ==
    \E i \in Pawns : w.pawns[i].team = "ATTACK" /\ w.pawns[i].inZone

\* the loop of UpdateRound that looks for a living attacker in the zone
anyAttackerInZone(w) ==
    \E i \in Pawns : w.pawns[i].alive /\ w.pawns[i].team = "ATTACK" /\ w.pawns[i].inZone

\* the two tests as independent ifs
WinConditions_bothIfs(w) ==
    LET w1 == IF ~alivePawnsOnTeam(w, "ATTACK") \/ w.roundTimer <= 0
              THEN [w EXCEPT !.roundWinner = "DEFEND", !.roundState = "ROUND_OVER",
                             !.scoreDefend = @ + 1]
              ELSE w
    IN  IF ~alivePawnsOnTeam(w, "DEFEND")
        THEN [w1 EXCEPT !.roundWinner = "ATTACK", !.roundState = "ROUND_OVER",
                        !.scoreAttack = @ + 1]
        ELSE w1

\* case RoundState::ACTIVE, "Win conditions"
WinConditions(w) ==
    IF ~alivePawnsOnTeam(w, "ATTACK") \/ w.roundTimer <= 0
    THEN [w EXCEPT !.roundWinner = "DEFEND", !.roundState = "ROUND_OVER",
                   !.scoreDefend = @ + 1]
    ELSE IF ~alivePawnsOnTeam(w, "DEFEND")
    THEN [w EXCEPT !.roundWinner = "ATTACK", !.roundState = "ROUND_OVER",
                   !.scoreAttack = @ + 1]
    ELSE w

\* the win conditions tested before the capture
UpdateRoundActive_winFirst(w, d) ==
    LET w1 == [w EXCEPT !.roundTimer = @ - d]
        inZone == anyAttackerInZone(w1)
        prog == IF inZone THEN w1.objective.captureProgress + d
                ELSE Max(0, w1.objective.captureProgress - Half(d))
        w2 == [w1 EXCEPT !.objective.captureProgress = prog]
        w3 == WinConditions(w2)
    IN  IF w3.roundState = "ACTIVE" /\ inZone /\ prog >= OBJECTIVE_CAPTURE_SEC
        THEN [w2 EXCEPT !.objective.captured = TRUE, !.roundWinner = "ATTACK",
                        !.roundState = "ROUND_OVER", !.scoreAttack = @ + 1]
        ELSE w3

\* the round clock left alone
UpdateRoundActive_noClock(w, d) ==
    LET inZone == anyAttackerInZone(w)
        prog == IF inZone THEN w.objective.captureProgress + d
                ELSE Max(0, w.objective.captureProgress - Half(d))
        w2 == [w EXCEPT !.objective.captureProgress = prog]
    IN  IF inZone /\ prog >= OBJECTIVE_CAPTURE_SEC
        THEN [w2 EXCEPT !.objective.captured = TRUE, !.roundWinner = "ATTACK",
                        !.roundState = "ROUND_OVER", !.scoreAttack = @ + 1]
        ELSE WinConditions(w2)

\* case RoundState::ACTIVE
UpdateRoundActive(w, d) ==
    LET w1 == [w EXCEPT !.roundTimer = @ - d]
        inZone == anyAttackerInZone(w1)
        prog == IF inZone THEN w1.objective.captureProgress + d
                ELSE Max(0, w1.objective.captureProgress - Half(d))
        w2 == [w1 EXCEPT !.objective.captureProgress = prog]
    IN  IF inZone /\ prog >= OBJECTIVE_CAPTURE_SEC
        THEN [w2 EXCEPT !.objective.captured = TRUE, !.roundWinner = "ATTACK",
                        !.roundState = "ROUND_OVER", !.scoreAttack = @ + 1]
        ELSE WinConditions(w2)

\* the countdown left where it ended, not set back to the delay
UpdateRoundOver_noRearm(w, ot, d) ==
    IF ot - d <= 0
    THEN LET w1 == [w EXCEPT !.roundNumber = @ + 1]
         IN  IF w1.scoreAttack >= MATCH_WIN_SCORE \/ w1.scoreDefend >= MATCH_WIN_SCORE
             THEN [w |-> [w1 EXCEPT !.roundState = "MATCH_OVER"],
                   ot |-> ot - d, reset |-> FALSE]
             ELSE [w |-> ResetRound(w1), ot |-> ot - d, reset |-> TRUE]
    ELSE [w |-> w, ot |-> ot - d, reset |-> FALSE]

\* the threshold tested with > in place of >=
UpdateRoundOver_above(w, ot, d) ==
    IF ot - d <= 0
    THEN LET w1 == [w EXCEPT !.roundNumber = @ + 1]
         IN  IF w1.scoreAttack > MATCH_WIN_SCORE \/ w1.scoreDefend > MATCH_WIN_SCORE
             THEN [w |-> [w1 EXCEPT !.roundState = "MATCH_OVER"],
                   ot |-> ROUND_OVER_SEC, reset |-> FALSE]
             ELSE [w |-> ResetRound(w1), ot |-> ROUND_OVER_SEC, reset |-> TRUE]
    ELSE [w |-> w, ot |-> ot - d, reset |-> FALSE]

\* case RoundState::ROUND_OVER
UpdateRoundOver(w, ot, d) ==
    IF ot - d <= 0
    THEN LET w1 == [w EXCEPT !.roundNumber = @ + 1]
         IN  IF w1.scoreAttack >= MATCH_WIN_SCORE \/ w1.scoreDefend >= MATCH_WIN_SCORE
             THEN [w |-> [w1 EXCEPT !.roundState = "MATCH_OVER"],
                   ot |-> ROUND_OVER_SEC, reset |-> FALSE]
             ELSE [w |-> ResetRound(w1), ot |-> ROUND_OVER_SEC, reset |-> TRUE]
    ELSE [w |-> w, ot |-> ot - d, reset |-> FALSE]

\* MATCH_OVER restarting without the key
UpdateRound_noKey(w, ot, d, enter) ==
    CASE w.roundState = "WAITING" ->
            LET w1 == [w EXCEPT !.freezeTimer = @ - d]
            IN  [w |-> IF w1.freezeTimer <= 0 THEN [w1 EXCEPT !.roundState = "ACTIVE"]
                       ELSE w1,
                 ot |-> ot, reset |-> FALSE]
      [] w.roundState = "ACTIVE" ->
            [w |-> UpdateRoundActive(w, d), ot |-> ot, reset |-> FALSE]
      [] w.roundState = "ROUND_OVER" -> UpdateRoundOver(w, ot, d)
      [] w.roundState = "MATCH_OVER" ->
            [w |-> RestartMatch(w), ot |-> ot, reset |-> TRUE]

\* UpdateRound: the new World, the new overTimer and whether ResetRound ran
UpdateRound(w, ot, d, enter) ==
    CASE w.roundState = "WAITING" ->
            LET w1 == [w EXCEPT !.freezeTimer = @ - d]
            IN  [w |-> IF w1.freezeTimer <= 0 THEN [w1 EXCEPT !.roundState = "ACTIVE"]
                       ELSE w1,
                 ot |-> ot, reset |-> FALSE]
      [] w.roundState = "ACTIVE" ->
            [w |-> UpdateRoundActive(w, d), ot |-> ot, reset |-> FALSE]
      [] w.roundState = "ROUND_OVER" -> UpdateRoundOver(w, ot, d)
      [] w.roundState = "MATCH_OVER" ->
            IF enter
            THEN [w |-> RestartMatch(w), ot |-> ot, reset |-> TRUE]
            ELSE [w |-> w, ot |-> ot, reset |-> FALSE]

----------------------------------------------------------------------------
(* WeaponSystem.h *)

(* A ray as FireRay sees it: geom is the distance of the nearest solid     *)
(* (maxRange when none), box[j] the distance at which the ray enters pawn  *)
(* j's box (0: GetRayCollisionBox reports no hit or a distance <= 0).      *)
NoPawn == -1

\* the nearest pawn on the ray, the solids in front of it ignored
FireRay_throughSolids(ray, shooterID, w) ==
    LET cand == {i \in Pawns : /\ w.pawns[i].alive
                               /\ i # shooterID
                               /\ ray.box[i] > 0}
    IN  IF cand = {} THEN NoPawn
        ELSE CHOOSE i \in cand :
                \A j \in cand : \/ ray.box[i] < ray.box[j]
                                \/ (ray.box[i] = ray.box[j] /\ i <= j)

\* FireRay: the id of the pawn hit, or NoPawn
FireRay(ray, shooterID, w) ==
    LET cand == {i \in Pawns : /\ w.pawns[i].alive
                               /\ i # shooterID
                               /\ ray.box[i] > 0
                               /\ ray.box[i] < ray.geom}
    IN  IF cand = {} THEN NoPawn
        ELSE CHOOSE i \in cand :
                \A j \in cand : \/ ray.box[i] < ray.box[j]
                                \/ (ray.box[i] = ray.box[j] /\ i <= j)

\* the hit registered without the clamp at 0
RegisterHit_noClamp(w, target, damage) ==
    LET hp == w.pawns[target].hp - damage
    IN  [w EXCEPT !.pawns[target].hp = hp,
                  !.pawns[target].alive = IF hp <= 0 THEN FALSE ELSE @,
                  !.hitIndicatorAlpha = IF target = playerID THEN HIT_ALPHA_ONE ELSE @]

\* the hit registration of one pellet (WeaponFire, "Register hit")
RegisterHit(w, target, damage) ==
    LET hp == Max(0, w.pawns[target].hp - damage)
    IN  [w EXCEPT !.pawns[target].hp = hp,
                  !.pawns[target].alive = IF hp <= 0 THEN FALSE ELSE @,
                  !.hitIndicatorAlpha = IF target = playerID THEN HIT_ALPHA_ONE ELSE @]

\* a tracer pushed for every pellet, whatever the size of the list
FirePellet_noCap(w, sid, ray) ==
    LET hit == FireRay(ray, sid, w)
        w1  == IF hit # NoPawn
               THEN RegisterHit(w, hit, stats(w.pawns[sid].weapon).damage)
               ELSE w
    IN  [w1 EXCEPT !.tracers = Append(@, TRACER_LIFE)]

\* one iteration of WeaponFire's pellet loop
FirePellet(w, sid, ray) ==
    LET hit == FireRay(ray, sid, w)
        w1  == IF hit # NoPawn
               THEN RegisterHit(w, hit, stats(w.pawns[sid].weapon).damage)
               ELSE w
    IN  IF Len(w1.tracers) < MAX_TRACERS
        THEN [w1 EXCEPT !.tracers = Append(@, TRACER_LIFE)]
        ELSE w1

RECURSIVE FirePellets(_, _, _, _)
FirePellets(w, sid, rays, p) ==
    IF p > stats(w.pawns[sid].weapon).pellets THEN w
    ELSE FirePellets(FirePellet(w, sid, rays[p]), sid, rays, p + 1)

\* a round taken from the magazine for every pellet
AmmoAfterShot_perPellet(ws) == ws.ammoMag - stats(ws).pellets

\* the magazine after a permitted shot
AmmoAfterShot(ws) == ws.ammoMag - 1

\* the automatic reload started on an empty magazine whatever the reserve
WeaponFire_noReserveTest(w, sid, rays) ==
    LET ws == w.pawns[sid].weapon
        st == stats(ws)
    IN  IF ~canFire(ws) THEN w
        ELSE LET w1 == [w EXCEPT !.pawns[sid].weapon.ammoMag = AmmoAfterShot(ws),
                                 !.pawns[sid].weapon.fireCooldown = st.cooldown]
                 w2 == FirePellets(w1, sid, rays, 1)
                 ws2 == w2.pawns[sid].weapon
             IN  IF ws2.ammoMag = 0
                 THEN [w2 EXCEPT !.pawns[sid].weapon.reloadTimer = st.reload]
                 ELSE w2

\* WeaponFire
WeaponFire(w, sid, rays) ==
    LET ws == w.pawns[sid].weapon
        st == stats(ws)
    IN  IF ~canFire(ws) THEN w
        ELSE LET w1 == [w EXCEPT !.pawns[sid].weapon.ammoMag = AmmoAfterShot(ws),
                                 !.pawns[sid].weapon.fireCooldown = st.cooldown]
                 w2 == FirePellets(w1, sid, rays, 1)
                 ws2 == w2.pawns[sid].weapon
             IN  IF ws2.ammoMag = 0 /\ ws2.ammoReserve > 0
                 THEN [w2 EXCEPT !.pawns[sid].weapon.reloadTimer = st.reload]
                 ELSE w2

\* the transfer not limited by the reserve
ReloadTake_noMin(ws) == stats(ws).magSize - ws.ammoMag

\* the rounds a finished reload moves from the reserve to the magazine
ReloadTake(ws) == Min(stats(ws).magSize - ws.ammoMag, ws.ammoReserve)

\* WeaponTick
WeaponTick(ws, d) ==
    LET ws1 == IF ws.fireCooldown > 0 THEN [ws EXCEPT !.fireCooldown = @ - d] ELSE ws
    IN  IF ws1.reloadTimer > 0
        THEN LET ws2 == [ws1 EXCEPT !.reloadTimer = @ - d]
             IN  IF ws2.reloadTimer <= 0
                 THEN [ws2 EXCEPT !.ammoMag = @ + ReloadTake(ws2),
                                  !.ammoReserve = @ - ReloadTake(ws2)]
                 ELSE ws2
        ELSE ws1

\* ThrowUtility (the bool it returns is ThrowOk)
countField(type) ==
    CASE type = "FRAG" -> "fragCount" [] type = "SMOKE" -> "smokeCount"
      [] type = "STUN" -> "stunCount"

\* the throw refused only below 0
ThrowOk_belowZero(w, pid, type) == w.pawns[pid][countField(type)] >= 0

ThrowOk(w, pid, type) == w.pawns[pid][countField(type)] > 0

\* the fuse of the frag given to every kind
ThrowUtility_fragFuse(w, pid, type) ==
    IF ~ThrowOk(w, pid, type) THEN w
    ELSE [w EXCEPT !.pawns[pid][countField(type)] = @ - 1,
                   !.grenades = Append(@,
                        [type |-> type, fuseTimer |-> FRAG_FUSE_SEC,
                         detonated |-> FALSE, ownerID |-> w.pawns[pid].id])]

ThrowUtility(w, pid, type) ==
    IF ~ThrowOk(w, pid, type) THEN w
    ELSE [w EXCEPT !.pawns[pid][countField(type)] = @ - 1,
                   !.grenades = Append(@,
                        [type |-> type,
                         fuseTimer |-> IF type = "FRAG" THEN FRAG_FUSE_SEC ELSE OTHER_FUSE_SEC,
                         detonated |-> FALSE, ownerID |-> w.pawns[pid].id])]

----------------------------------------------------------------------------
(* InputSystem.h: ProcessInput.  in is what the frame's polls return:      *)
(* move (where SweepAABB leaves the player: inside the objective radius or *)
(* not), select (the pressed keys among KEY_ONE + k), ads, triggerDown,    *)
(* triggerPressed, reload, frag, smoke, stun, and rays (one per pellet).   *)

\* one iteration of the weapon-select loop
SelectWeapon(ws, k, keys) ==
    IF k \in keys
    THEN [ws EXCEPT !.id = k, !.ammoMag = WEAPON_TABLE[k].magSize,
                    !.ammoReserve = WEAPON_TABLE[k].magSize * 2,
                    !.reloadTimer = 0, !.fireCooldown = 0]
    ELSE ws

shouldFire(ws, in) == IF stats(ws).semiAuto THEN in.triggerPressed ELSE in.triggerDown

\* ProcessInput without the return on roundState
ProcessInput_anyRoundState(w, in, d) ==
    IF ~w.pawns[playerID].alive THEN w
    ELSE
    LET p == playerID
        \* look, movement, gravity, jump, sweep
        w1 == [w EXCEPT !.pawns[p].inZone = in.move]
        \* weapon select 1-5
        ws1 == SelectWeapon(SelectWeapon(SelectWeapon(SelectWeapon(SelectWeapon(
                  w1.pawns[p].weapon, 0, in.select), 1, in.select), 2, in.select),
                  3, in.select), 4, in.select)
        \* ADS
        w2 == [w1 EXCEPT !.pawns[p].weapon = [ws1 EXCEPT !.isADS = in.ads]]
        \* fire
        w3 == IF shouldFire(w2.pawns[p].weapon, in) THEN WeaponFire(w2, p, in.rays) ELSE w2
        \* reload
        w4 == IF in.reload /\ w3.pawns[p].weapon.reloadTimer <= 0
              THEN [w3 EXCEPT !.pawns[p].weapon.reloadTimer = stats(w3.pawns[p].weapon).reload]
              ELSE w3
        \* weapon tick
        w5 == [w4 EXCEPT !.pawns[p].weapon = WeaponTick(@, d)]
        \* utility
        w6 == IF in.frag THEN ThrowUtility(w5, p, "FRAG") ELSE w5
        w7 == IF in.smoke THEN ThrowUtility(w6, p, "SMOKE") ELSE w6
    IN  IF in.stun THEN ThrowUtility(w7, p, "STUN") ELSE w7

ProcessInput(w, in, d) ==
    IF w.roundState \in {"WAITING", "ROUND_OVER", "MATCH_OVER"} THEN w
    ELSE IF ~w.pawns[playerID].alive THEN w
    ELSE
    LET p == playerID
        \* look, movement, gravity, jump, sweep
        w1 == [w EXCEPT !.pawns[p].inZone = in.move]
        \* weapon select 1-5
        ws1 == SelectWeapon(SelectWeapon(SelectWeapon(SelectWeapon(SelectWeapon(
                  w1.pawns[p].weapon, 0, in.select), 1, in.select), 2, in.select),
                  3, in.select), 4, in.select)
        \* ADS
        w2 == [w1 EXCEPT !.pawns[p].weapon = [ws1 EXCEPT !.isADS = in.ads]]
        \* fire
        w3 == IF shouldFire(w2.pawns[p].weapon, in) THEN WeaponFire(w2, p, in.rays) ELSE w2
        \* reload
        w4 == IF in.reload /\ w3.pawns[p].weapon.reloadTimer <= 0
              THEN [w3 EXCEPT !.pawns[p].weapon.reloadTimer = stats(w3.pawns[p].weapon).reload]
              ELSE w3
        \* weapon tick
        w5 == [w4 EXCEPT !.pawns[p].weapon = WeaponTick(@, d)]
        \* utility
        w6 == IF in.frag THEN ThrowUtility(w5, p, "FRAG") ELSE w5
        w7 == IF in.smoke THEN ThrowUtility(w6, p, "SMOKE") ELSE w6
    IN  IF in.stun THEN ThrowUtility(w7, p, "STUN") ELSE w7

\* the PlayShoot calls ProcessInput makes (WeaponFire with audio = &audio)
ProcessInputAudio(w, in) ==
    IF w.roundState \in {"WAITING", "ROUND_OVER", "MATCH_OVER"} THEN <<>>
    ELSE IF ~w.pawns[playerID].alive THEN <<>>
    ELSE LET ws == [ SelectWeapon(SelectWeapon(SelectWeapon(SelectWeapon(SelectWeapon(
                  w.pawns[playerID].weapon, 0, in.select), 1, in.select), 2, in.select),
                  3, in.select), 4, in.select) EXCEPT !.isADS = in.ads]
         IN  IF shouldFire(ws, in) /\ canFire(ws) THEN <<ws.id>> ELSE <<>>

----------------------------------------------------------------------------
(* BotAI.h: one iteration of UpdateBots' loop, for pawn i.  o is what the  *)
(* iteration's geometric queries return: view[j] (the distance at which    *)
(* pawn j passes FindVisibleEnemy's range, field-of-view, geometry and     *)
(* smoke tests, 0 when it fails one), move (where the sweeps leave the     *)
(* bot), reached (SEARCH: within reach of lastKnown) and rays.             *)

\* FindVisibleEnemy: on equal distances the later index replaces the earlier
FindVisibleEnemy(botID, w, view) ==
    LET cand == {i \in Pawns : /\ w.pawns[i].alive
                               /\ w.pawns[i].team # w.pawns[botID].team
                               /\ i # botID
                               /\ view[i] > 0}
    IN  IF cand = {} THEN NoPawn
        ELSE CHOOSE i \in cand :
                \A j \in cand : \/ view[i] < view[j]
                                \/ (view[i] = view[j] /\ i >= j)

\* the vision check made in every update, whatever the timer
BotVision_everyFrame(brain, i, w, d, view) ==
    LET vis == FindVisibleEnemy(i, w, view)
        b2  == [brain EXCEPT !.visionTimer = BOT_VISION_PERIOD]
    IN  IF vis >= 0
        THEN [b2 EXCEPT !.targetID = vis, !.hasSightLine = TRUE, !.state = "ENGAGE"]
        ELSE IF b2.targetID >= 0
        THEN [b2 EXCEPT !.hasSightLine = FALSE,
                        !.state = IF @ = "ENGAGE" THEN "SEARCH" ELSE @]
        ELSE b2

\* the throttled vision check
BotVision(brain, i, w, d, view) ==
    LET b1 == [brain EXCEPT !.visionTimer = @ - d]
    IN  IF b1.visionTimer <= 0
        THEN LET vis == FindVisibleEnemy(i, w, view)
                 b2  == [b1 EXCEPT !.visionTimer = BOT_VISION_PERIOD]
             IN  IF vis >= 0
                 THEN [b2 EXCEPT !.targetID = vis, !.hasSightLine = TRUE,
                                 !.state = "ENGAGE"]
                 ELSE IF b2.targetID >= 0
                 THEN [b2 EXCEPT !.hasSightLine = FALSE,
                                 !.state = IF @ = "ENGAGE" THEN "SEARCH" ELSE @]
                 ELSE b2
        ELSE b1

\* the trigger that counts the bot itself as the team mate it needs
BotRetreat_alone(brain, i, w) ==
    IF w.pawns[i].hp < BOT_RETREAT_HP /\ aliveCount(w, w.pawns[i].team) >= 1
    THEN [brain EXCEPT !.state = "RETREAT"]
    ELSE brain

\* the retreat trigger
BotRetreat(brain, i, w) ==
    IF w.pawns[i].hp < BOT_RETREAT_HP /\ aliveCount(w, w.pawns[i].team) > 1
    THEN [brain EXCEPT !.state = "RETREAT"]
    ELSE brain

(* reactionTimer only ever matters through "<= 0"; the source lets it fall *)
(* without bound while the sight line is held, here it stops at -DT_MAX.   *)
ReactionTick(t, d) == Max(t - d, 0 - DT_MAX)

\* the switch on brain.state; yields the new World and the new brain
BotFSM(brain, i, w, d, o) ==
    LET moved == [w EXCEPT !.pawns[i].inZone = o.move]
    IN  CASE brain.state = "PATROL" -> [w |-> moved, brain |-> brain]
          [] brain.state = "ENGAGE" ->
                IF brain.targetID < 0 \/ ~w.pawns[brain.targetID].alive
                THEN [w |-> w, brain |-> [brain EXCEPT !.state = "PATROL", !.targetID = -1]]
                ELSE IF brain.hasSightLine
                THEN LET b1 == [brain EXCEPT !.reactionTimer = ReactionTick(@, d)]
                     IN  [w |-> IF b1.reactionTimer <= 0
                                THEN WeaponFire(moved, i, o.rays) ELSE moved,
                          brain |-> b1]
                ELSE [w |-> moved, brain |-> [brain EXCEPT !.reactionTimer = BOT_REACTION]]
          [] brain.state = "SEARCH" ->
                [w |-> moved,
                 brain |-> IF o.reached
                           THEN [brain EXCEPT !.state = "PATROL", !.targetID = -1]
                           ELSE brain]
          [] brain.state = "RETREAT" ->
                [w |-> moved,
                 brain |-> IF w.pawns[i].hp > BOT_RECOVER_HP
                           THEN [brain EXCEPT !.state = "PATROL"] ELSE brain]

\* the retreat trigger applied after the switch on the state
UpdateBot_retreatLast(brain, i, w, d, o) ==
    LET w1 == [w EXCEPT !.pawns[i].weapon = WeaponTick(@, d)]
        b1 == BotVision(brain, i, w1, d, o.view)
        r  == BotFSM(b1, i, w1, d, o)
    IN  [w |-> r.w, brain |-> BotRetreat(r.brain, i, w1)]

\* the body of the loop for a living bot
UpdateBot(brain, i, w, d, o) ==
    LET w1 == [w EXCEPT !.pawns[i].weapon = WeaponTick(@, d)]
        b1 == BotVision(brain, i, w1, d, o.view)
        b2 == BotRetreat(b1, i, w1)
    IN  BotFSM(b2, i, w1, d, o)

\* UpdateBots without the test of the alive flag
BotActs_deadToo(w, i) == w.pawns[i].isBot

\* the pawns the loop does not skip
BotActs(w, i) == w.pawns[i].isBot /\ w.pawns[i].alive

\* the next index at or after i the loop does not skip (MAX_PAWNS: none)
NextBot(w, i) ==
    IF \E j \in Pawns : j >= i /\ BotActs(w, j)
    THEN CHOOSE j \in Pawns : j >= i /\ BotActs(w, j)
                              /\ \A k \in Pawns : (k >= i /\ BotActs(w, k)) => j <= k
    ELSE MAX_PAWNS

----------------------------------------------------------------------------
(* UtilitySystem.h: UpdateUtility.  blasts[k] is what the geometry gives   *)
(* for grenade k should it detonate: dist[j], the distance of pawn j from  *)
(* the grenade in tenths of a metre, and blocked, the pawns a solid hides. *)

\* the falloff with its sign turned round
FragDamage_signTurned(d) == (FRAG_DAMAGE * (d - FRAG_RADIUS)) \div FRAG_RADIUS

\* the damage without the falloff
FragDamage_noFalloff(d) == FRAG_DAMAGE

\* (int)(FRAG_DAMAGE * (1.0f - d / FRAG_RADIUS))
FragDamage(d) == (FRAG_DAMAGE * (FRAG_RADIUS - d)) \div FRAG_RADIUS

\* case UtilityID::FRAG, for one pawn
FragPawn(p, j, blast) ==
    IF ~p.alive \/ blast.dist[j] > FRAG_RADIUS \/ j \in blast.blocked THEN p
    ELSE LET hp == Max(0, p.hp - FragDamage(blast.dist[j]))
         IN  [p EXCEPT !.hp = hp, !.alive = IF hp <= 0 THEN FALSE ELSE @]

FragHitsPlayer(w, blast) ==
    /\ w.pawns[playerID].alive
    /\ blast.dist[playerID] <= FRAG_RADIUS
    /\ playerID \notin blast.blocked

\* the stun taken from any living pawn in range, bot or not
StunHitsPlayer_anyPawn(w, blast) ==
    \E j \in Pawns : w.pawns[j].alive /\ 2 * blast.dist[j] <= 3 * FRAG_RADIUS

\* d <= FRAG_RADIUS * 1.5f
StunHitsPlayer(w, blast) ==
    \E j \in Pawns : /\ w.pawns[j].alive
                     /\ 2 * blast.dist[j] <= 3 * FRAG_RADIUS
                     /\ ~w.pawns[j].isBot

\* the switch on g.type at detonation
Detonate(w, g, blast) ==
    CASE g.type = "FRAG" ->
            [w EXCEPT !.pawns = [j \in Pawns |-> FragPawn(w.pawns[j], j, blast)],
                      !.hitIndicatorAlpha = IF FragHitsPlayer(w, blast)
                                            THEN HIT_ALPHA_ONE ELSE @]
      [] g.type = "SMOKE" ->
            IF Len(w.smokes) < MAX_SMOKES
            THEN [w EXCEPT !.smokes = Append(@, SMOKE_DURATION_SEC)] ELSE w
      [] g.type = "STUN" ->
            IF StunHitsPlayer(w, blast) THEN [w EXCEPT !.stun = STUN_DURATION_SEC] ELSE w

\* the grenade loop, from grenade k on
RECURSIVE GrenadeLoop(_, _, _, _)
GrenadeLoop(w, d, blasts, k) ==
    IF k > Len(w.grenades) THEN w
    ELSE LET g == w.grenades[k]
         IN  IF g.detonated THEN GrenadeLoop(w, d, blasts, k + 1)
             ELSE LET g1 == [g EXCEPT !.fuseTimer = @ - d]
                      w1 == [w EXCEPT !.grenades[k] = g1]
                  IN  IF g1.fuseTimer <= 0
                      THEN GrenadeLoop(Detonate([w1 EXCEPT !.grenades[k].detonated = TRUE],
                                                g1, blasts[k]),
                                       d, blasts, k + 1)
                      ELSE GrenadeLoop(w1, d, blasts, k + 1)

\* std::remove_if ... erase keeps, in order, what the predicate rejects
\* nothing erased from the grenade list
Live_all(g) == TRUE

Live(g) == ~g.detonated
Unexpired(life) == life > 0

Decay(seq, d) == [k \in 1 .. Len(seq) |-> seq[k] - d]

UpdateUtility(w, d, blasts) ==
    LET w1 == GrenadeLoop(w, d, blasts, 1)
    IN  [w1 EXCEPT !.grenades = SelectSeq(@, Live),
                   !.smokes = SelectSeq(Decay(@, d), Unexpired),
                   !.stun = IF @ > 0 THEN @ - d ELSE @,
                   !.hitIndicatorAlpha = IF @ > 0 THEN Max(0, @ - d) ELSE @,
                   !.tracers = SelectSeq(Decay(@, d), Unexpired)]

----------------------------------------------------------------------------
(* main.cpp: the body of the main loop, one step per call *)

FrameTimes == {2, 6}

\* the ESC toggle of main
EscToggle(cs, w, esc) ==
    IF esc /\ w.roundState # "MATCH_OVER"
    THEN (CASE cs = "PLAYING" -> "PAUSED" [] cs = "PAUSED" -> "PLAYING" [] OTHER -> cs)
    ELSE cs

\* GetFrameTime, the clamp of dt, the ESC toggle and the branch on currentState
BeginFrame(maxRound, Escs, Fts) ==
    /\ pc = "frame"
    /\ world.roundNumber <= maxRound
    /\ \E ft \in Fts, esc \in Escs :
          /\ dt' = IF ft > DT_MAX THEN DT_MAX ELSE ft
          /\ currentState' = EscToggle(currentState, world, esc)
          /\ pc' = CASE currentState' = "PLAYING" -> "input"
                     [] currentState' = "MATCH_OVER" -> "over"
                     [] OTHER -> "draw"
    /\ audioLog' = <<>>
    /\ request' = "none"
    /\ UNCHANGED <<world, overTimer, s_brains, botIdx, call>>

\* ProcessInput(world, dt, audio)
StepInput(Ins) ==
    /\ pc = "input"
    /\ \E in \in Ins :
          /\ world' = ProcessInput(world, in, dt)
          /\ audioLog' = ProcessInputAudio(world, in)
    /\ pc' = "round"
    /\ UNCHANGED <<overTimer, s_brains, currentState, dt, botIdx, request, call>>

\* the bots and utility guarded by roundState as it was before UpdateRound
StepRound_testBefore ==
    /\ pc = "round"
    /\ \E enter \in BOOLEAN :
          LET r == UpdateRound(world, overTimer, dt, enter)
          IN  /\ world' = r.w
              /\ overTimer' = r.ot
              /\ request' = IF world.roundState = "MATCH_OVER" /\ enter
                            THEN "KEY_ENTER" ELSE request
              /\ s_brains' = IF r.reset THEN InitBotBrains ELSE s_brains
              /\ IF world.roundState = "ACTIVE"
                 THEN /\ botIdx' = NextBot(r.w, 0)
                      /\ pc' = IF botIdx' < MAX_PAWNS THEN "bots" ELSE "utility"
                 ELSE /\ botIdx' = botIdx
                      /\ pc' = "menu"
    /\ UNCHANGED <<currentState, dt, audioLog, call>>

\* UpdateRound(world, md, dt), and the test that guards the bots and utility
StepRound ==
    /\ pc = "round"
    /\ \E enter \in BOOLEAN :
          LET r == UpdateRound(world, overTimer, dt, enter)
          IN  /\ world' = r.w
              /\ overTimer' = r.ot
              /\ request' = IF world.roundState = "MATCH_OVER" /\ enter
                            THEN "KEY_ENTER" ELSE request
              /\ s_brains' = IF r.reset THEN InitBotBrains ELSE s_brains
              /\ IF r.w.roundState = "ACTIVE"
                 THEN /\ botIdx' = NextBot(r.w, 0)
                      /\ pc' = IF botIdx' < MAX_PAWNS THEN "bots" ELSE "utility"
                 ELSE /\ botIdx' = botIdx
                      /\ pc' = "menu"
    /\ UNCHANGED <<currentState, dt, audioLog, call>>

\* one iteration of UpdateBots' loop that is not skipped
StepBot(Os) ==
    /\ pc = "bots"
    /\ \E o \in Os[botIdx] :
          LET r == UpdateBot(s_brains[botIdx], botIdx, world, dt, o)
          IN  /\ world' = r.w
              /\ s_brains' = [s_brains EXCEPT ![botIdx] = r.brain]
              /\ botIdx' = NextBot(r.w, botIdx + 1)
              /\ pc' = IF botIdx' < MAX_PAWNS THEN "bots" ELSE "utility"
    /\ UNCHANGED <<overTimer, currentState, dt, audioLog, request, call>>

\* UpdateUtility(world, dt)
StepUtility(Bs) ==
    /\ pc = "utility"
    /\ \E blasts \in [1 .. Len(world.grenades) -> Bs] :
          world' = UpdateUtility(world, dt, blasts)
    /\ pc' = "menu"
    /\ UNCHANGED <<overTimer, s_brains, currentState, dt, botIdx, audioLog, request, call>>

\* "Check if game transitioned to match over internally"
StepMenu ==
    /\ pc = "menu"
    /\ currentState' = IF world.roundState = "MATCH_OVER" THEN "MATCH_OVER" ELSE currentState
    /\ pc' = "draw"
    /\ UNCHANGED <<world, overTimer, s_brains, dt, botIdx, audioLog, request, call>>

\* the AppState::MATCH_OVER branch of the update logic (KEY_ENTER)
StepOver ==
    /\ pc = "over"
    /\ \E enter \in BOOLEAN :
          IF enter
          THEN /\ world' = RestartMatch(world)
               /\ s_brains' = InitBotBrains
               /\ currentState' = "PLAYING"
               /\ request' = "KEY_ENTER"
          ELSE UNCHANGED <<world, s_brains, currentState, request>>
    /\ pc' = "draw"
    /\ UNCHANGED <<overTimer, dt, botIdx, audioLog, call>>

(* The menus drawn over the screen.  click is the button the mouse is      *)
(* released on, if any.                                                    *)
Clicks(cs) ==
    CASE cs = "MAIN_MENU" -> {"none", "PLAY GAME", "QUIT"}
      [] cs = "PAUSED" -> {"none", "RESUME", "MAIN MENU", "QUIT TO DESKTOP"}
      [] cs = "MATCH_OVER" -> {"none", "PLAY AGAIN", "MAIN MENU"}
      [] OTHER -> {"none"}

StepDraw ==
    /\ pc = "draw"
    /\ \E click \in Clicks(currentState) :
          LET \* MenuSystem::DrawMatchOverScreen writes roundState on PLAY AGAIN
              w1 == IF currentState = "MATCH_OVER" /\ click = "PLAY AGAIN"
                    THEN [world EXCEPT !.roundState = "MATCH_OVER"] ELSE world
              again == /\ currentState = "MATCH_OVER"
                       /\ w1.roundState = "MATCH_OVER"
                       /\ click = "PLAY AGAIN"
          IN  /\ world' = IF again THEN RestartMatch(w1) ELSE w1
              /\ request' = IF currentState = "MATCH_OVER" /\ click = "PLAY AGAIN"
                            THEN "PLAY AGAIN" ELSE request
              /\ s_brains' = IF again THEN InitBotBrains ELSE s_brains
              /\ currentState' =
                    CASE click \in {"PLAY GAME", "RESUME"} -> "PLAYING"
                      [] click = "MAIN MENU" -> "MAIN_MENU"
                      [] again -> "PLAYING"
                      [] OTHER -> currentState
              /\ pc' = IF click \in {"QUIT", "QUIT TO DESKTOP"} THEN "exit" ELSE "frame"
    /\ UNCHANGED <<overTimer, dt, botIdx, audioLog, call>>

----------------------------------------------------------------------------
(* The inputs of the steps *)

RayMiss == [geom |-> 1, box |-> [j \in Pawns |-> 0]]
RayAt(t) == [geom |-> 9, box |-> [j \in Pawns |-> IF j = t THEN 1 ELSE 0]]
RayThrough(t, u) ==
    [geom |-> 9, box |-> [j \in Pawns |-> IF j = t THEN 1 ELSE IF j = u THEN 2 ELSE 0]]
\* the pawns of line stand one behind the other along the ray
RayLine(line) ==
    [geom |-> 9,
     box |-> [j \in Pawns |-> IF \E k \in 1 .. Len(line) : line[k] = j
                               THEN CHOOSE k \in 1 .. Len(line) : line[k] = j ELSE 0]]
RayWall(t) == [geom |-> 1, box |-> [j \in Pawns |-> IF j = t THEN 2 ELSE 0]]

MaxPellets == 8
AllPellets(r) == [p \in 1 .. MaxPellets |-> r]
SplitPellets(a, b, k) == [p \in 1 .. MaxPellets |-> IF p <= k THEN a ELSE b]

Idle(z) ==
    [move |-> z, select |-> {}, ads |-> FALSE, triggerDown |-> FALSE,
     triggerPressed |-> FALSE, reload |-> FALSE, frag |-> FALSE, smoke |-> FALSE,
     stun |-> FALSE, rays |-> AllPellets(RayMiss)]

Shoot(z, rays) == [Idle(z) EXCEPT !.triggerDown = TRUE, !.triggerPressed = TRUE, !.rays = rays]

NoView == [j \in Pawns |-> 0]
Sees(t) == [j \in Pawns |-> IF j = t THEN 5 ELSE 0]
BotIn(view, z, rays) == [view |-> view, move |-> z, reached |-> FALSE, rays |-> rays]

Far == FRAG_RADIUS + 1
NoBlast == [dist |-> [j \in Pawns |-> 2 * FRAG_RADIUS], blocked |-> {}]
BlastAt(t, d) == [dist |-> [j \in Pawns |-> IF j = t THEN d ELSE 2 * FRAG_RADIUS], blocked |-> {}]

\* Spec: the whole match; the player walks in and out of the objective and
\* nobody sees anybody
PlayerInputs == {Idle(z) : z \in BOOLEAN}

BotInputs(i) == {BotIn(NoView, FALSE, AllPellets(RayMiss))}

Blasts == {NoBlast}

\* SpecCombat and SpecZone: the rounds up to MaxRounds
MaxRounds == 1

(* SpecCombat: the fight.  The defenders stand in a line before the        *)
(* player and so do the player's team mates; the player shoots along one   *)
(* of the lines with the sniper rifle just selected, or throws the frag,   *)
(* which goes off at the player's feet or away from everybody; defender 3  *)
(* may see and shoot the player.                                           *)
SelectShoot(k, rays) == [Shoot(FALSE, rays) EXCEPT !.select = {k}]

CombatPlayerInputs ==
    {Idle(FALSE)}
    \cup {SelectShoot(SNIPER, AllPellets(RayLine(line))) : line \in {<<3, 4, 5>>, <<1, 2>>}}
    \cup {[Idle(FALSE) EXCEPT !.frag = TRUE]}

CombatBotInputs(i) ==
    {BotIn(NoView, FALSE, AllPellets(RayMiss))}
    \cup (IF i = 3 THEN {BotIn(Sees(0), FALSE, AllPellets(RayAt(0)))} ELSE {})

CombatBlasts == {NoBlast, BlastAt(0, 0)}

(* SpecZone: the objective under fire.  Bot 1 walks into the zone and out  *)
(* of it; the player shoots along the line of the defenders or the line of *)
(* the team mates; the frames are short or long, both under the clamp.     *)
ZoneFrameTimes == {2, 4}

ZonePlayerInputs ==
    {Idle(FALSE)}
    \cup {SelectShoot(SNIPER, AllPellets(RayLine(line))) : line \in {<<3, 4, 5>>, <<1, 2>>}}

ZoneBotInputs(i) ==
    {BotIn(NoView, FALSE, AllPellets(RayMiss))}
    \cup (IF i = 1 THEN {BotIn(NoView, TRUE, AllPellets(RayMiss))} ELSE {})

(* SpecWeapon: the player handles the weapons: selects, fires (pressing or *)
(* holding the trigger), reloads, in any order; every shot misses.         *)
WeaponPlayerInputs ==
    {Idle(FALSE)}
    \cup {[Idle(FALSE) EXCEPT !.select = ks] : ks \in {{PISTOL}, {SNIPER}, {SHOTGUN}, {SMG, SHOTGUN}}}
    \cup {Shoot(FALSE, AllPellets(RayMiss))}
    \cup {[Idle(FALSE) EXCEPT !.triggerDown = TRUE]}
    \cup {[Idle(FALSE) EXCEPT !.reload = TRUE]}
    \cup {[Shoot(FALSE, AllPellets(RayMiss)) EXCEPT !.reload = TRUE]}

\* the record of a call that reads no view and casts no ray
NoBotIn == [view |-> NoView, move |-> FALSE, reached |-> FALSE, rays |-> <<>>]

\* the inputs of a call as its record keeps them, value by value
Recorded(o) ==
    [view |-> [j \in Pawns |-> o.view[j]],
     move |-> o.move,
     reached |-> o.reached,
     rays |-> [p \in 1 .. MaxPellets |->
                 [geom |-> o.rays[p].geom, box |-> [j \in Pawns |-> o.rays[p].box[j]]]]]

NoCall == [fn |-> "none", pawn |-> NoPawn, arg |-> "", ret |-> "", blasts |-> <<>>, o |-> NoBotIn]

Init ==
    /\ world = World0
    /\ overTimer = ROUND_OVER_SEC
    /\ s_brains = InitBotBrains
    /\ currentState = "MAIN_MENU"
    /\ dt = 0
    /\ pc = "frame"
    /\ botIdx = 0
    /\ audioLog = <<>>
    /\ request = "none"
    /\ call = NoCall

NoRoundCap == MATCH_WIN_SCORE * 2 + 1

Next ==
    \/ BeginFrame(NoRoundCap, BOOLEAN, FrameTimes)
    \/ StepInput(PlayerInputs)
    \/ StepRound
    \/ StepBot([i \in Pawns |-> BotInputs(i)])
    \/ StepUtility(Blasts)
    \/ StepMenu
    \/ StepOver
    \/ StepDraw

Spec == Init /\ [][Next]_vars

(* SpecLive: the whole match as in Spec, the game never paused and every   *)
(* frame as long as the clamp allows; main's loop runs until the window    *)
(* closes, so the steps of the loop are weakly fair.                       *)
LiveFrameTimes == {DT_MAX}

NextLive ==
    \/ BeginFrame(NoRoundCap, {FALSE}, LiveFrameTimes)
    \/ StepInput(PlayerInputs)
    \/ StepRound
    \/ StepBot([i \in Pawns |-> BotInputs(i)])
    \/ StepUtility(Blasts)
    \/ StepMenu
    \/ StepOver
    \/ StepDraw

SpecLive == Init /\ [][NextLive]_vars /\ WF_vars(NextLive)

NextCombat ==
    \/ BeginFrame(MaxRounds, {FALSE}, {2})
    \/ StepInput(CombatPlayerInputs)
    \/ StepRound
    \/ StepBot([i \in Pawns |-> CombatBotInputs(i)])
    \/ StepUtility(CombatBlasts)
    \/ StepMenu
    \/ StepDraw

SpecCombat == Init /\ [][NextCombat]_vars

NextZone ==
    \/ BeginFrame(MaxRounds, {FALSE}, ZoneFrameTimes)
    \/ StepInput(ZonePlayerInputs)
    \/ StepRound
    \/ StepBot([i \in Pawns |-> ZoneBotInputs(i)])
    \/ StepUtility(Blasts)
    \/ StepMenu
    \/ StepDraw

SpecZone == Init /\ [][NextZone]_vars

(* SpecDead: the fight of SpecCombat around the objective: bot 1 may walk  *)
(* into the zone, where the player's shot along the line of the team       *)
(* mates kills it, and defender 3 may shoot the player; the defenders are  *)
(* not shot at.                                                            *)
DeadPlayerInputs ==
    {Idle(FALSE), [Idle(FALSE) EXCEPT !.frag = TRUE],
     SelectShoot(SNIPER, AllPellets(RayLine(<<1, 2>>)))}

DeadBotInputs(i) == CombatBotInputs(i) \cup ZoneBotInputs(i)

NextDead ==
    \/ BeginFrame(MaxRounds, {FALSE}, {2})
    \/ StepInput(DeadPlayerInputs)
    \/ StepRound
    \/ StepBot([i \in Pawns |-> DeadBotInputs(i)])
    \/ StepUtility(CombatBlasts)
    \/ StepMenu
    \/ StepDraw

SpecDead == Init /\ [][NextDead]_vars

(* SpecLast: the last round of a match that stands at four rounds each,    *)
(* and the frames after it up to the restart.  The player throws the       *)
(* frag, the smoke and the stun, which may go off at the player's feet,    *)
(* or shoots along the line of the defenders; defender 3 may see and       *)
(* shoot the player.  The round over, its grenades, smokes and tracers     *)
(* are still in the lists through ROUND_OVER and MATCH_OVER.               *)
LastRound == 2 * MATCH_WIN_SCORE - 1

InitLast ==
    /\ world = [World0 EXCEPT !.scoreAttack = MATCH_WIN_SCORE - 1,
                              !.scoreDefend = MATCH_WIN_SCORE - 1,
                              !.roundNumber = LastRound]
    /\ overTimer = ROUND_OVER_SEC
    /\ s_brains = InitBotBrains
    /\ currentState = "PLAYING"
    /\ dt = 2
    /\ pc = "frame"
    /\ botIdx = MAX_PAWNS
    /\ audioLog = <<>>
    /\ request = "none"
    /\ call = NoCall

LastPlayerInputs ==
    {Idle(FALSE), SelectShoot(SNIPER, AllPellets(RayLine(<<3, 4, 5>>)))}
    \cup {[Idle(FALSE) EXCEPT !.frag = TRUE], [Idle(FALSE) EXCEPT !.smoke = TRUE],
          [Idle(FALSE) EXCEPT !.stun = TRUE]}

NextLast ==
    \/ (world.roundNumber >= LastRound /\ BeginFrame(NoRoundCap, {FALSE}, {2}))
    \/ StepInput(LastPlayerInputs)
    \/ StepRound
    \/ StepBot([i \in Pawns |-> CombatBotInputs(i)])
    \/ StepUtility(CombatBlasts)
    \/ StepMenu
    \/ StepOver
    \/ StepDraw

SpecLast == InitLast /\ [][NextLast]_vars

(* SpecWeapon: the two calls of a frame that touch the player's weapon and *)
(* its tracers, ProcessInput and UpdateUtility, frame after frame in a     *)
(* round that stays ACTIVE: the round clock is left out, the source's      *)
(* round (90 s) being long against the weapons' timers (3.5 s at most).    *)
(* It starts where the freeze has just ended.                              *)
InitWeapon ==
    /\ world = [World0 EXCEPT !.roundState = "ACTIVE", !.freezeTimer = 0]
    /\ overTimer = ROUND_OVER_SEC
    /\ s_brains = [InitBotBrains EXCEPT ![1].visionTimer = BOT_VISION_PERIOD,
                                        ![2].visionTimer = BOT_VISION_PERIOD,
                                        ![3].visionTimer = BOT_VISION_PERIOD,
                                        ![4].visionTimer = BOT_VISION_PERIOD,
                                        ![5].visionTimer = BOT_VISION_PERIOD]
    /\ currentState = "PLAYING"
    /\ dt = 2
    /\ pc = "input"
    /\ botIdx = MAX_PAWNS
    /\ audioLog = <<>>
    /\ request = "none"
    /\ call = NoCall

WeaponFrame(Ins, Fts) ==
    /\ pc = "input"
    /\ \E in \in Ins, ft \in Fts :
          /\ dt' = IF ft > DT_MAX THEN DT_MAX ELSE ft
          /\ world' = UpdateUtility(ProcessInput(world, in, dt'), dt', <<>>)
          /\ audioLog' = ProcessInputAudio(world, in)
    /\ UNCHANGED <<overTimer, s_brains, currentState, pc, botIdx, request, call>>

NextWeapon == WeaponFrame(WeaponPlayerInputs, FrameTimes)

SpecWeapon == InitWeapon /\ [][NextWeapon]_vars

----------------------------------------------------------------------------
(* The calls one at a time.  SpecFire and SpecThrow start where the freeze *)
(* has just ended and make the calls of ProcessInput and of the frame one  *)
(* by one, in any order, each recorded in call; the state passed to a call *)
(* is the state the calls before it have left.                             *)

InitCalls ==
    /\ world = [World0 EXCEPT !.roundState = "ACTIVE", !.freezeTimer = 0]
    /\ overTimer = ROUND_OVER_SEC
    /\ s_brains = InitBotBrains
    /\ currentState = "PLAYING"
    /\ dt = 2
    /\ pc = "calls"
    /\ botIdx = MAX_PAWNS
    /\ audioLog = <<>>
    /\ request = "none"
    /\ call = NoCall

\* audio->PlayShoot(ws.id) of WeaponFire, for the caller that passes &audio
WeaponFireAudio(w, sid) ==
    IF sid = playerID /\ canFire(w.pawns[sid].weapon)
    THEN <<w.pawns[sid].weapon.id>> ELSE <<>>

\* the weapon-select loop of ProcessInput
CallSelectWeapon(Ks) ==
    /\ pc = "calls"
    /\ world.pawns[playerID].alive
    /\ \E ks \in Ks :
          /\ world' = [world EXCEPT !.pawns[playerID].weapon =
                          SelectWeapon(SelectWeapon(SelectWeapon(SelectWeapon(
                          SelectWeapon(@, 0, ks), 1, ks), 2, ks), 3, ks), 4, ks)]
          /\ call' = [fn |-> "SelectWeapon", pawn |-> playerID, arg |-> "", ret |-> "", blasts |-> <<>>, o |-> NoBotIn]
    /\ audioLog' = <<>>
    /\ UNCHANGED <<overTimer, s_brains, currentState, dt, pc, botIdx, request>>

\* WeaponFire(shooter, world, isADS, audio), by a pawn holding one of Ws
CallWeaponFire(Sids, Ws, Rays) ==
    /\ pc = "calls"
    /\ \E sid \in Sids, rays \in Rays :
          /\ world.pawns[sid].alive
          /\ world.pawns[sid].weapon.id \in Ws
          /\ world' = WeaponFire(world, sid, rays)
          /\ audioLog' = WeaponFireAudio(world, sid)
          /\ call' = [fn |-> "WeaponFire", pawn |-> sid, arg |-> "", ret |-> "", blasts |-> <<>>,
                       o |-> Recorded([NoBotIn EXCEPT !.rays = rays])]
    /\ UNCHANGED <<overTimer, s_brains, currentState, dt, pc, botIdx, request>>

\* the reload request of ProcessInput
CallReload ==
    /\ pc = "calls"
    /\ world.pawns[playerID].alive
    /\ world' = IF world.pawns[playerID].weapon.reloadTimer <= 0
                THEN [world EXCEPT !.pawns[playerID].weapon.reloadTimer =
                         stats(world.pawns[playerID].weapon).reload]
                ELSE world
    /\ call' = [fn |-> "Reload", pawn |-> playerID, arg |-> "", ret |-> "", blasts |-> <<>>, o |-> NoBotIn]
    /\ audioLog' = <<>>
    /\ UNCHANGED <<overTimer, s_brains, currentState, dt, pc, botIdx, request>>

\* WeaponTick(weapon, dt)
CallWeaponTick(Sids, Fts) ==
    /\ pc = "calls"
    /\ \E sid \in Sids, ft \in Fts :
          /\ world.pawns[sid].alive
          /\ dt' = IF ft > DT_MAX THEN DT_MAX ELSE ft
          /\ world' = [world EXCEPT !.pawns[sid].weapon = WeaponTick(@, dt')]
          /\ call' = [fn |-> "WeaponTick", pawn |-> sid, arg |-> "", ret |-> "", blasts |-> <<>>, o |-> NoBotIn]
    /\ audioLog' = <<>>
    /\ UNCHANGED <<overTimer, s_brains, currentState, pc, botIdx, request>>

(* SpecFire: the player selects the sniper rifle or the shotgun, fires it  *)
(* at defender 3, asks for a reload, and the weapon ticks.                 *)
FireSelects == {{SNIPER}, {SHOTGUN}}
FireWeapons == {SNIPER, SHOTGUN}

NextFire ==
    \/ CallSelectWeapon(FireSelects)
    \/ CallWeaponFire({playerID}, FireWeapons, {AllPellets(RayAt(3))})
    \/ CallReload
    \/ CallWeaponTick({playerID}, FrameTimes)

SpecFire == InitCalls /\ [][NextFire]_vars

\* ThrowUtility(thrower, type, world); ret is the bool returned
CallThrowUtility(Pids, Types) ==
    /\ pc = "calls"
    /\ \E pid \in Pids, type \in Types :
          /\ world.pawns[pid].alive
          /\ world' = ThrowUtility(world, pid, type)
          /\ call' = [fn |-> "ThrowUtility", pawn |-> pid, arg |-> type,
                      ret |-> IF ThrowOk(world, pid, type) THEN "true" ELSE "false",
                      blasts |-> <<>>, o |-> NoBotIn]
    /\ audioLog' = <<>>
    /\ UNCHANGED <<overTimer, s_brains, currentState, dt, pc, botIdx, request>>

\* UpdateUtility(world, dt); blasts is what the geometry gives the grenades,
\* read only for those whose fuse runs out in this call
CallUpdateUtility(Fts, Bs) ==
    /\ pc = "calls"
    /\ \E ft \in Fts, blasts \in [1 .. Len(world.grenades) -> Bs \cup {NoBlast}] :
          /\ dt' = IF ft > DT_MAX THEN DT_MAX ELSE ft
          /\ \A k \in 1 .. Len(world.grenades) :
                IF world.grenades[k].fuseTimer - dt' > 0
                THEN blasts[k] = NoBlast ELSE blasts[k] \in Bs
          /\ world' = UpdateUtility(world, dt', blasts)
          /\ call' = [fn |-> "UpdateUtility", pawn |-> NoPawn, arg |-> "", ret |-> "",
                      blasts |-> blasts, o |-> NoBotIn]
    /\ audioLog' = <<>>
    /\ UNCHANGED <<overTimer, s_brains, currentState, pc, botIdx, request>>

(* SpecThrow: the player throws the three grenades, in any order and at    *)
(* any time, may wound team mate 1 with a rifle shot and be wounded by a   *)
(* shot of bot 3's SMG, and the utility ticks.  A grenade goes off among  *)
(* the pawns (BlastNear), at the player's feet (BlastOnPlayer), or with    *)
(* the player just inside or just outside one and a half radii.            *)
BlastNear ==
    [dist |-> [j \in Pawns |-> CASE j = 0 -> FRAG_RADIUS + 15
                                 [] j = 1 -> 0
                                 [] j = 2 -> 20
                                 [] j = 3 -> FRAG_RADIUS
                                 [] j = 4 -> FRAG_RADIUS + 1
                                 [] j = 5 -> 20],
     blocked |-> {5}]
BlastOnPlayer == [dist |-> [j \in Pawns |-> 10 * j], blocked |-> {4}]
\* the largest distance within FRAG_RADIUS * 1.5f
StunRange == (3 * FRAG_RADIUS) \div 2
BlastStunEdge(d) == [dist |-> [j \in Pawns |-> IF j = 0 THEN d ELSE 10], blocked |-> {}]

ThrowBlasts ==
    {BlastNear, BlastOnPlayer, BlastStunEdge(StunRange), BlastStunEdge(StunRange + 1)}

NextThrow ==
    \/ CallThrowUtility({playerID}, {"FRAG", "SMOKE", "STUN"})
    \/ CallUpdateUtility(FrameTimes, ThrowBlasts)
    \/ CallWeaponFire({playerID}, {RIFLE}, {AllPellets(RayAt(1))})
    \/ CallWeaponFire({3}, {SMG}, {AllPellets(RayAt(playerID))})

SpecThrow == InitCalls /\ [][NextThrow]_vars

(* SpecFuse: the player throws the three grenades and the utility ticks;   *)
(* main calls UpdateUtility in every frame of an ACTIVE round, so the tick *)
(* is fair while the round lasts.                                          *)
NextFuse ==
    \/ CallThrowUtility({playerID}, {"FRAG", "SMOKE", "STUN"})
    \/ CallUpdateUtility(FrameTimes, {BlastNear})

SpecFuse ==
    InitCalls /\ [][NextFuse]_vars /\ WF_vars(CallUpdateUtility(FrameTimes, {BlastNear}))

\* one iteration of UpdateBots' loop, for a living bot
CallUpdateBot(Is, Fts, Os) ==
    /\ pc = "calls"
    /\ \E i \in Is, ft \in Fts, o \in Os :
          /\ BotActs(world, i)
          /\ dt' = IF ft > DT_MAX THEN DT_MAX ELSE ft
          /\ LET r == UpdateBot(s_brains[i], i, world, dt', o)
             IN  /\ world' = r.w
                 /\ s_brains' = [s_brains EXCEPT ![i] = r.brain]
          /\ call' = [fn |-> "UpdateBot", pawn |-> i, arg |-> "", ret |-> "",
                      blasts |-> <<>>, o |-> Recorded(o)]
    /\ audioLog' = <<>>
    /\ UNCHANGED <<overTimer, currentState, pc, botIdx, request>>

(* SpecBots: defender 3 is updated, seeing attacker 1 or nobody, within    *)
(* reach of the last known position or not, and shooting in the air.  The  *)
(* player wounds it with the rifle, then takes the sniper rifle and shoots *)
(* its team mates 4 and 5 and attacker 1.                                  *)
(* MaxShots bounds the shots fired by all.                                 *)
MaxShots == 6

BotViews == {NoView, Sees(1)}

BotOs ==
    {[view |-> v, move |-> FALSE, reached |-> r, rays |-> AllPellets(RayMiss)] :
        v \in BotViews, r \in BOOLEAN}

NextBots ==
    \/ Len(world.tracers) < MaxShots /\ CallUpdateBot({3}, FrameTimes, BotOs)
    \/ Len(world.tracers) < MaxShots
          /\ CallWeaponFire({playerID}, {RIFLE}, {AllPellets(RayAt(3))})
    \/ Len(world.tracers) < MaxShots
          /\ CallWeaponFire({playerID}, {SNIPER},
                            {AllPellets(RayLine(<<4, 5>>)), AllPellets(RayAt(1))})
    \/ CallSelectWeapon({{SNIPER}})
    \/ CallWeaponTick({playerID}, {DT_MAX})

SpecBots == InitCalls /\ [][NextBots]_vars

(* SpecCaps: the player takes the shotgun, as often as wished, fires it    *)
(* into the air, throws the frag and the smoke, and the weapon and the     *)
(* utility tick, each call with the longest frame time.                    *)
CapsFrameTimes == {DT_MAX}

NextCaps ==
    \/ CallSelectWeapon({{SHOTGUN}})
    \/ CallWeaponFire({playerID}, {SHOTGUN}, {AllPellets(RayMiss)})
    \/ CallWeaponTick({playerID}, CapsFrameTimes)
    \/ CallThrowUtility({playerID}, {"FRAG", "SMOKE"})
    \/ CallUpdateUtility(CapsFrameTimes, {BlastNear})

SpecCaps == InitCalls /\ [][NextCaps]_vars

(* SpecPellet: the player fires the rifle or the sniper rifle, one pellet  *)
(* a shot, or the shotgun, along rays that miss, meet one pawn, two pawns  *)
(* in a line or at the same distance, a pawn behind a wall, a pawn at the  *)
(* distance where the ray ends, a team-mate, or leave through the          *)
(* shooter's own box; defender 3 fires its SMG through its own box at the  *)
(* player and through defender 4 at attacker 1.                            *)
RayEdge(t) == [geom |-> 9, box |-> [j \in Pawns |-> IF j = t THEN 9 ELSE 0]]
RayTie(t, u) == [geom |-> 9, box |-> [j \in Pawns |-> IF j \in {t, u} THEN 1 ELSE 0]]

PelletRays ==
    {RayMiss, RayAt(3), RayAt(1), RayLine(<<3, 4>>), RayLine(<<playerID, 3>>),
     RayWall(3), RayEdge(3), RayTie(1, 2)}

NextPellet ==
    \/ Len(world.tracers) < MaxShots
          /\ CallWeaponFire({playerID}, {RIFLE, SNIPER}, {AllPellets(r) : r \in PelletRays})
    \/ Len(world.tracers) < MaxShots
          /\ CallWeaponFire({playerID}, {SHOTGUN},
                            {SplitPellets(RayLine(<<3, 4>>), RayWall(5), 6)})
    \/ Len(world.tracers) < MaxShots
          /\ CallWeaponFire({3}, {SMG}, {AllPellets(RayLine(<<3, playerID>>)),
                                         AllPellets(RayLine(<<4, 1>>))})
    \/ CallSelectWeapon({{SNIPER}, {SHOTGUN}})
    \/ CallWeaponTick({playerID, 3}, {DT_MAX})

SpecPellet == InitCalls /\ [][NextPellet]_vars

(* SpecSmoke: the player throws the smoke grenade and the utility ticks    *)
(* until it goes off and the smoke fades; defender 3 is updated with the   *)
(* player in its range, field of view and line of sight, and with the      *)
(* segment from its eye to some pawns crossing a smoke sphere, which can   *)
(* be only while a smoke is in the list.  The bot faces its target: its    *)
(* shots go to the player.                                                 *)

\* FindVisibleEnemy's view once RayBlockedBySmoke has made the loop skip the
\* pawns of smoked
SmokeView(los, smoked) == [j \in Pawns |-> IF j \in smoked THEN 0 ELSE los[j]]

\* one iteration of UpdateBots' loop; smoked are the pawns for which
\* RayBlockedBySmoke(eye, enemyPos, world.smokes) would return true
CallUpdateBotSmoke(Is, Fts, Los, Smokeds) ==
    /\ pc = "calls"
    /\ \E i \in Is, ft \in Fts, los \in Los, smoked \in Smokeds :
          /\ BotActs(world, i)
          /\ smoked # {} => world.smokes # <<>>
          /\ dt' = IF ft > DT_MAX THEN DT_MAX ELSE ft
          /\ LET o == [view |-> SmokeView(los, smoked), move |-> FALSE, reached |-> FALSE,
                       rays |-> AllPellets(RayAt(playerID))]
                 r == UpdateBot(s_brains[i], i, world, dt', o)
             IN  /\ world' = r.w
                 /\ s_brains' = [s_brains EXCEPT ![i] = r.brain]
                 /\ call' = [fn |-> "UpdateBot", pawn |-> i, arg |-> "", ret |-> "",
                             blasts |-> <<>>, o |-> Recorded(o), smoked |-> smoked]
    /\ audioLog' = <<>>
    /\ UNCHANGED <<overTimer, currentState, pc, botIdx, request>>

NextSmoke ==
    \/ CallThrowUtility({playerID}, {"SMOKE"})
    \/ CallUpdateUtility(FrameTimes, {NoBlast})
    \/ CallUpdateBotSmoke({3}, FrameTimes, {NoView, Sees(playerID)}, {{}, {playerID}})
    \/ CallWeaponFire({playerID}, {RIFLE}, {AllPellets(RayAt(3))})

SpecSmoke == InitCalls /\ [][NextSmoke]_vars

----------------------------------------------------------------------------
(* Physics.h: SweepAABB against one solid.  Lengths are in centimetres,    *)
(* velocities in centimetres per tick of dt; a solid is its bounds.        *)

PHYS_SKIN == 2
PLAYER_RADIUS == 40
PLAYER_HEIGHT == 175

\* makeBox of SweepAABB, with R = PLAYER_RADIUS + PHYS_SKIN
makeBox(p) ==
    LET R == PLAYER_RADIUS + PHYS_SKIN
    IN  [min |-> [x |-> p.x - R, y |-> p.y, z |-> p.z - R],
         max |-> [x |-> p.x + R, y |-> p.y + PLAYER_HEIGHT, z |-> p.z + R]]

\* raylib's CheckCollisionBoxes: touching boxes collide
CheckCollisionBoxes(b1, b2) ==
    /\ b1.max.x >= b2.min.x /\ b1.min.x <= b2.max.x
    /\ b1.max.y >= b2.min.y /\ b1.min.y <= b2.max.y
    /\ b1.max.z >= b2.min.z /\ b1.min.z <= b2.max.z

\* the X pass and the Z pass: the position along the axis and the velocity
SweepSide(try1, v, lo, hi, collides) ==
    LET R == PLAYER_RADIUS + PHYS_SKIN
        overlapRight == hi - (try1 - R)
        overlapLeft  == (try1 + R) - lo
    IN  IF ~collides THEN [at |-> try1, vel |-> v]
        ELSE [at |-> IF overlapRight > 0 /\ overlapRight < overlapLeft
                     THEN try1 + overlapRight + PHYS_SKIN
                     ELSE IF overlapLeft > 0 THEN try1 - (overlapLeft + PHYS_SKIN)
                     ELSE try1,
              vel |-> 0]

\* SweepAABB(pos, vel, dt, hitFloor, {solid}): the position returned, vel and
\* hitFloor as they are left
SweepAABB(pos, vel, d, solid) ==
    LET tx == [pos EXCEPT !.x = @ + vel.x * d]
        rx == SweepSide(tx.x, vel.x, solid.min.x, solid.max.x,
                        CheckCollisionBoxes(makeBox(tx), solid))
        p1 == [pos EXCEPT !.x = rx.at]
        tz == [p1 EXCEPT !.z = @ + vel.z * d]
        rz == SweepSide(tz.z, vel.z, solid.min.z, solid.max.z,
                        CheckCollisionBoxes(makeBox(tz), solid))
        p2 == [p1 EXCEPT !.z = rz.at]
        ty == [p2 EXCEPT !.y = @ + vel.y * d]
        hitY == CheckCollisionBoxes(makeBox(ty), solid)
        overlapUp   == solid.max.y - ty.y
        overlapDown == (ty.y + PLAYER_HEIGHT) - solid.min.y
        floorHit == hitY /\ overlapUp > 0 /\ overlapUp < overlapDown
        ceilHit  == hitY /\ ~floorHit /\ overlapDown > 0
        y3 == IF floorHit THEN ty.y + overlapUp + PHYS_SKIN
              ELSE IF ceilHit THEN ty.y - (overlapDown + PHYS_SKIN)
              ELSE ty.y
    IN  [pos |-> [p2 EXCEPT !.y = IF y3 < 0 THEN 0 ELSE y3],
         vel |-> [x |-> rx.vel, y |-> IF ceilHit THEN 0 ELSE vel.y, z |-> rz.vel],
         hitFloor |-> floorHit \/ y3 < 0]

\* the overlap of the pawn's box (PLAYER_RADIUS, PLAYER_HEIGHT) at p with the
\* solid, along each axis
Depth(p, solid) ==
    [x |-> Min(p.x + PLAYER_RADIUS, solid.max.x) - Max(p.x - PLAYER_RADIUS, solid.min.x),
     y |-> Min(p.y + PLAYER_HEIGHT, solid.max.y) - Max(p.y, solid.min.y),
     z |-> Min(p.z + PLAYER_RADIUS, solid.max.z) - Max(p.z - PLAYER_RADIUS, solid.min.z)]

Penetrates(p, solid, margin) ==
    Depth(p, solid).x > margin /\ Depth(p, solid).y > margin /\ Depth(p, solid).z > margin

(* SpecSweep: a pawn beside, on or above a crate standing on the floor or  *)
(* a platform above it is swept once, with a velocity and a frame time.    *)
Crate == [min |-> [x |-> 0, y |-> 0, z |-> 0], max |-> [x |-> 100, y |-> 100, z |-> 100]]
Platform == [min |-> [x |-> 0, y |-> 200, z |-> 0], max |-> [x |-> 100, y |-> 220, z |-> 100]]

SweepStarts ==
    {[x |-> x, y |-> y, z |-> z] : x \in {-60, -42, 50}, y \in {0, 102, 222, 300}, z \in {50, 160}}

SweepVels ==
    {[x |-> x, y |-> y, z |-> z] : x \in {-20, 0, 20}, y \in {-40, -10, 0, 20}, z \in {-20, 0}}

InitSweep ==
    /\ world = [World0 EXCEPT !.roundState = "ACTIVE", !.freezeTimer = 0]
    /\ overTimer = ROUND_OVER_SEC
    /\ s_brains = InitBotBrains
    /\ currentState = "PLAYING"
    /\ dt = 2
    /\ pc = "sweep"
    /\ botIdx = MAX_PAWNS
    /\ audioLog = <<>>
    /\ request = "none"
    /\ call \in {c \in {[fn |-> "none", solid |-> solid, start |-> p, pos |-> p,
                          vin |-> [x |-> 0, y |-> 0, z |-> 0],
                          vel |-> [x |-> 0, y |-> 0, z |-> 0], hitFloor |-> FALSE] :
                            solid \in {Crate, Platform}, p \in SweepStarts} :
                    ~Penetrates(c.pos, c.solid, 0)}

\* pos = SweepAABB(pos, velocity, dt, hitFloor, solids)
CallSweepAABB(Vs, Fts) ==
    /\ pc = "sweep"
    /\ \E v \in Vs, ft \in Fts :
          /\ dt' = IF ft > DT_MAX THEN DT_MAX ELSE ft
          /\ LET r == SweepAABB(call.pos, v, dt', call.solid)
             IN  call' = [fn |-> "SweepAABB", solid |-> call.solid, start |-> call.pos,
                          vin |-> v, pos |-> r.pos, vel |-> r.vel,
                          hitFloor |-> r.hitFloor]
    /\ pc' = "swept"
    /\ UNCHANGED <<world, overTimer, s_brains, currentState, botIdx, audioLog, request>>

NextSweep == CallSweepAABB(SweepVels, FrameTimes)

SpecSweep == InitSweep /\ [][NextSweep]_vars

----------------------------------------------------------------------------
(* Properties *)

Team(i) == IF i < TEAM_SIZE THEN "ATTACK" ELSE "DEFEND"

\* a World just after ResetRound
FreshRound(w) ==
    /\ w.roundState = "WAITING"
    /\ w.roundWinner = "NONE"
    /\ w.roundTimer = ROUND_TIME_SEC
    /\ w.freezeTimer = FREEZE_SEC
    /\ w.objective.captureProgress = 0 /\ ~w.objective.captured
    /\ w.grenades = <<>> /\ w.smokes = <<>> /\ w.tracers = <<>>
    /\ w.stun = 0 /\ w.hitIndicatorAlpha = 0
    /\ \A i \in Pawns :
          /\ w.pawns[i].alive /\ w.pawns[i].hp = MAX_HP /\ ~w.pawns[i].inZone
          /\ w.pawns[i].team = Team(i)
          /\ w.pawns[i].weapon.ammoMag = WEAPON_TABLE[w.pawns[i].weapon.id].magSize
          /\ w.pawns[i].weapon.reloadTimer = 0 /\ w.pawns[i].weapon.fireCooldown = 0
          /\ w.pawns[i].fragCount = 1 /\ w.pawns[i].smokeCount = 1
          /\ w.pawns[i].stunCount = 1

\* C1: roundState changes only along WAITING -> ACTIVE, ACTIVE -> ROUND_OVER,
\* ROUND_OVER -> WAITING, ROUND_OVER -> MATCH_OVER and MATCH_OVER -> WAITING,
\* the last only in a step that polled a restart request (the ENTER key or
\* the PLAY AGAIN button); ACTIVE never goes directly to WAITING or MATCH_OVER.
C1_RoundStateEdges ==
    [][world'.roundState # world.roundState =>
         /\ <<world.roundState, world'.roundState>> \in
               {<<"WAITING", "ACTIVE">>, <<"ACTIVE", "ROUND_OVER">>,
                <<"ROUND_OVER", "WAITING">>, <<"ROUND_OVER", "MATCH_OVER">>,
                <<"MATCH_OVER", "WAITING">>}
         /\ (world.roundState = "MATCH_OVER" =>
                request = "none" /\ request' \in {"KEY_ENTER", "PLAY AGAIN"})]_vars

\* a match was won, shown on the match-over screen and restarted with the key
C1_Witness ==
    /\ request = "KEY_ENTER"
    /\ world.roundState = "WAITING"
    /\ pc = "draw"
    /\ currentState = "PLAYING"

\* C2: every ACTIVE -> ROUND_OVER step adds exactly 1 to exactly one of
\* scoreAttack and scoreDefend and sets roundWinner to that team; no other
\* step changes a score, but the match restart, which zeroes both.
C2_ExactlyOneOutcome ==
    [][LET ends == world.roundState = "ACTIVE" /\ world'.roundState = "ROUND_OVER"
           restart == world.roundState = "MATCH_OVER" /\ world'.roundState = "WAITING"
       IN  /\ ends =>
                \/ /\ world'.scoreAttack = world.scoreAttack + 1
                   /\ world'.scoreDefend = world.scoreDefend
                   /\ world'.roundWinner = "ATTACK"
                \/ /\ world'.scoreDefend = world.scoreDefend + 1
                   /\ world'.scoreAttack = world.scoreAttack
                   /\ world'.roundWinner = "DEFEND"
           /\ restart => world'.scoreAttack = 0 /\ world'.scoreDefend = 0
           /\ (~ends /\ ~restart) =>
                /\ world'.scoreAttack = world.scoreAttack
                /\ world'.scoreDefend = world.scoreDefend]_vars

\* the round ended in a tick in which the timer had run out and the last
\* defender had just been shot: one point, for DEFEND
C2_Witness ==
    /\ world.roundState = "ROUND_OVER"
    /\ world.roundTimer <= 0
    /\ \A i \in Pawns : Team(i) = "DEFEND" => ~world.pawns[i].alive
    /\ world.roundWinner = "DEFEND"
    /\ world.scoreDefend = 1 /\ world.scoreAttack = 0

\* C3: in the ROUND_OVER tick in which the delay elapses, a score of
\* MATCH_WIN_SCORE or more on either side leads to MATCH_OVER with nothing
\* of the round reset; with both scores below it the round is reset in full
\* and the state is WAITING.
C3_RoundOverDecision ==
    [][(pc = "round" /\ world.roundState = "ROUND_OVER" /\ overTimer - dt <= 0) =>
         IF world.scoreAttack >= MATCH_WIN_SCORE \/ world.scoreDefend >= MATCH_WIN_SCORE
         THEN /\ world'.roundState = "MATCH_OVER"
              /\ world'.pawns = world.pawns
              /\ world'.objective = world.objective
              /\ world'.roundTimer = world.roundTimer
              /\ world'.freezeTimer = world.freezeTimer
              /\ world'.roundWinner = world.roundWinner
              /\ world'.grenades = world.grenades
              /\ world'.smokes = world.smokes
              /\ world'.tracers = world.tracers
              /\ world'.scoreAttack = world.scoreAttack
              /\ world'.scoreDefend = world.scoreDefend
              /\ s_brains' = s_brains
         ELSE /\ FreshRound(world')
              /\ s_brains' = InitBotBrains
              /\ world'.scoreAttack = world.scoreAttack
              /\ world'.scoreDefend = world.scoreDefend]_vars

\* the delay has just elapsed on a won match: MATCH_OVER, the capture of the
\* last round still in the World
C3_Witness ==
    /\ pc = "menu"
    /\ world.roundState = "MATCH_OVER"
    /\ world.scoreAttack = MATCH_WIN_SCORE
    /\ world.objective.captured
    /\ world.roundWinner = "ATTACK"

\* C4: in MATCH_OVER a step that polls no restart request leaves the World
\* (state, scores, round number, pawns) as it is; a step that polls one sets
\* both scores to 0, the round number to 1, resets the round in full and
\* leaves the state WAITING.
C4_MatchOverTerminal ==
    [][world.roundState = "MATCH_OVER" =>
         IF request' = "none"
         THEN world' = world
         ELSE /\ world'.scoreAttack = 0 /\ world'.scoreDefend = 0
              /\ world'.roundNumber = 1
              /\ FreshRound(world')
              /\ s_brains' = InitBotBrains]_vars

\* a finished match was restarted with the PLAY AGAIN button
C4_Witness ==
    /\ request = "PLAY AGAIN"
    /\ world.roundState = "WAITING"
    /\ world.roundNumber = 1
    /\ world.scoreAttack = 0 /\ world.scoreDefend = 0

\* C5: an ACTIVE tick in which the capture does not complete: with no
\* attacker alive or the timer, after the decrement, at 0 or less, DEFEND
\* wins and scoreDefend grows by 1; otherwise with no defender alive ATTACK
\* wins and scoreAttack grows by 1; otherwise the round stays ACTIVE and the
\* scores are unchanged.
C5_WinConditions ==
    [][(pc = "round" /\ world.roundState = "ACTIVE" /\ ~world'.objective.captured) =>
         LET attackAlive == \E i \in Pawns : Team(i) = "ATTACK" /\ world.pawns[i].alive
             defendAlive == \E i \in Pawns : Team(i) = "DEFEND" /\ world.pawns[i].alive
         IN  IF ~attackAlive \/ world.roundTimer - dt <= 0
             THEN /\ world'.roundState = "ROUND_OVER"
                  /\ world'.roundWinner = "DEFEND"
                  /\ world'.scoreDefend = world.scoreDefend + 1
                  /\ world'.scoreAttack = world.scoreAttack
             ELSE IF ~defendAlive
             THEN /\ world'.roundState = "ROUND_OVER"
                  /\ world'.roundWinner = "ATTACK"
                  /\ world'.scoreAttack = world.scoreAttack + 1
                  /\ world'.scoreDefend = world.scoreDefend
             ELSE /\ world'.roundState = "ACTIVE"
                  /\ world'.scoreAttack = world.scoreAttack
                  /\ world'.scoreDefend = world.scoreDefend]_vars

\* the attackers were all killed before the timer ran out: DEFEND has won
C5_Witness ==
    /\ world.roundState = "ROUND_OVER"
    /\ \A i \in Pawns : Team(i) = "ATTACK" => ~world.pawns[i].alive
    /\ world.roundTimer > 0
    /\ ~world.objective.captured
    /\ world.roundWinner = "DEFEND"
    /\ world.scoreDefend = 1

\* C6: in an ACTIVE tick with a living attacker in the zone the capture
\* completes exactly when the progress with this tick's dt added reaches
\* OBJECTIVE_CAPTURE_SEC: captured is set, ATTACK wins, scoreAttack grows by
\* 1 and the state is ROUND_OVER, whatever the timer and the teams are.
C6_CaptureCompletes ==
    [][(/\ pc = "round" /\ world.roundState = "ACTIVE"
        /\ \E i \in Pawns : /\ Team(i) = "ATTACK" /\ world.pawns[i].alive
                            /\ world.pawns[i].inZone) =>
         IF world.objective.captureProgress + dt >= OBJECTIVE_CAPTURE_SEC
         THEN /\ world'.objective.captured
              /\ world'.roundWinner = "ATTACK"
              /\ world'.scoreAttack = world.scoreAttack + 1
              /\ world'.scoreDefend = world.scoreDefend
              /\ world'.roundState = "ROUND_OVER"
         ELSE ~world'.objective.captured]_vars

\* the capture completed in the tick in which the timer ran out
C6_Witness ==
    /\ pc = "menu"
    /\ world.objective.captured
    /\ world.roundTimer <= 0
    /\ world.roundWinner = "ATTACK"
    /\ world.roundState = "ROUND_OVER"

\* C7: captureProgress is always within [0, OBJECTIVE_CAPTURE_SEC], in the
\* tick that completes the capture and throughout ROUND_OVER too.
C7_CaptureProgressBounded ==
    /\ world.objective.captureProgress >= 0
    /\ world.objective.captureProgress <= OBJECTIVE_CAPTURE_SEC

C9_HpBounded ==
    /\ [](\A i \in Pawns : /\ world.pawns[i].hp >= 0
                           /\ world.pawns[i].hp <= MAX_HP
                           /\ (~world.pawns[i].alive => world.pawns[i].hp = 0))
    /\ [][\A i \in Pawns :
            (~world.pawns[i].alive /\ world'.roundState # "WAITING") =>
                ~world'.pawns[i].alive /\ world'.pawns[i].hp = 0]_vars

\* the player was shot dead after throwing the frag, which is still armed
C9_Witness ==
    /\ ~world.pawns[playerID].alive
    /\ world.pawns[playerID].hp = 0
    /\ world.pawns[4].hp = MAX_HP
    /\ world.grenades # <<>>

\* C10: ammoMag and ammoReserve of every weapon are never negative, whatever
\* the sequence of fire, reload, weapon tick and weapon select.
C10_AmmoNonNegative ==
    \A i \in Pawns : /\ world.pawns[i].weapon.ammoMag >= 0
                     /\ world.pawns[i].weapon.ammoReserve >= 0

\* the sniper rifle shot empty: nothing in the magazine, nothing in reserve
C10_Witness ==
    /\ world.pawns[playerID].weapon.id = SNIPER
    /\ world.pawns[playerID].weapon.ammoMag = 0
    /\ world.pawns[playerID].weapon.ammoReserve = 0

\* C11: a reload starts (reloadTimer of a weapon goes from <= 0 to > 0)
\* only when the magazine is not full, for the manual request and for the
\* automatic reload on an empty magazine alike.  (The magazine read is the
\* one after the step: the round fired in the same ProcessInput is already
\* taken, and a reload that has started has not yet moved a round.)
C11_ReloadStartsOnlyWhenNotFull ==
    [][\A i \in Pawns :
          (world.pawns[i].weapon.reloadTimer <= 0 /\ world'.pawns[i].weapon.reloadTimer > 0)
             => world'.pawns[i].weapon.ammoMag
                   < WEAPON_TABLE[world'.pawns[i].weapon.id].magSize]_vars

\* C12: a WeaponFire call made while the shooter's weapon is reloading
\* (reloadTimer > 0), on cooldown (fireCooldown > 0) or empty (ammoMag = 0)
\* changes nothing: no ammo, no timer, no pawn's hp or alive flag, no tracer,
\* and no PlayShoot is sent.
C12_BlockedFireChangesNothing ==
    [][(/\ call'.fn = "WeaponFire"
        /\ LET ws == world.pawns[call'.pawn].weapon
           IN  ws.reloadTimer > 0 \/ ws.fireCooldown > 0 \/ ws.ammoMag = 0) =>
         /\ world' = world
         /\ audioLog' = <<>>]_vars

\* the trigger was pulled during a reload with defender 3 in the sights:
\* the defender is unhurt and no tracer was drawn
C12_Witness ==
    /\ call.fn = "WeaponFire"
    /\ world.pawns[playerID].weapon.reloadTimer > 0
    /\ world.pawns[playerID].weapon.id = SHOTGUN
    /\ world.pawns[3].alive /\ world.pawns[3].hp = MAX_HP
    /\ world.tracers = <<>>
    /\ audioLog = <<>>

\* C13: a permitted WeaponFire (not reloading, not on cooldown, magazine not
\* empty) takes exactly 1 from ammoMag whatever the pellet count, sets
\* fireCooldown to the weapon's 60/fireRateRPM, leaves ammoReserve as it is,
\* and sets reloadTimer to the weapon's reload time exactly when the
\* magazine has reached 0 with ammoReserve > 0 (reloadTimer is unchanged
\* otherwise).
C13_PermittedFire ==
    [][(/\ call'.fn = "WeaponFire"
        /\ LET ws == world.pawns[call'.pawn].weapon
           IN  ws.reloadTimer <= 0 /\ ws.fireCooldown <= 0 /\ ws.ammoMag > 0) =>
         LET ws == world.pawns[call'.pawn].weapon
             ws2 == world'.pawns[call'.pawn].weapon
         IN  /\ ws2.id = ws.id
             /\ ws2.ammoMag = ws.ammoMag - 1
             /\ ws2.fireCooldown = WEAPON_TABLE[ws.id].cooldown
             /\ ws2.ammoReserve = ws.ammoReserve
             /\ ws2.reloadTimer = IF ws2.ammoMag = 0 /\ ws.ammoReserve > 0
                                  THEN WEAPON_TABLE[ws.id].reload
                                  ELSE ws.reloadTimer]_vars

\* the last cartridge of the shotgun was fired with cartridges in reserve:
\* eight pellets, one round, and the reload under way
C13_Witness ==
    /\ call.fn = "WeaponFire"
    /\ world.pawns[playerID].weapon.id = SHOTGUN
    /\ world.pawns[playerID].weapon.ammoMag = 0
    /\ world.pawns[playerID].weapon.ammoReserve > 0
    /\ world.pawns[playerID].weapon.reloadTimer = WEAPON_TABLE[SHOTGUN].reload
    /\ world.pawns[playerID].weapon.fireCooldown = WEAPON_TABLE[SHOTGUN].cooldown
    /\ Len(world.tracers) >= WEAPON_TABLE[SHOTGUN].pellets

\* C14: in the WeaponTick in which the reload countdown crosses zero exactly
\* min(magSize - ammoMag, ammoReserve) rounds move from the reserve to the
\* magazine, so ammoMag + ammoReserve is unchanged and ammoMag is at most
\* the weapon's magSize; in every other WeaponTick the ammo counts are
\* unchanged.
C14_ReloadTransfer ==
    [][call'.fn = "WeaponTick" =>
         LET ws == world.pawns[call'.pawn].weapon
             ws2 == world'.pawns[call'.pawn].weapon
             need == WEAPON_TABLE[ws.id].magSize - ws.ammoMag
             take == IF need < ws.ammoReserve THEN need ELSE ws.ammoReserve
         IN  IF ws.reloadTimer > 0 /\ ws.reloadTimer - dt' <= 0
             THEN /\ ws2.ammoMag = ws.ammoMag + take
                  /\ ws2.ammoReserve = ws.ammoReserve - take
                  /\ ws2.ammoMag + ws2.ammoReserve = ws.ammoMag + ws.ammoReserve
                  /\ ws2.ammoMag <= WEAPON_TABLE[ws.id].magSize
             ELSE /\ ws2.ammoMag = ws.ammoMag
                  /\ ws2.ammoReserve = ws.ammoReserve]_vars

\* the reloads of the shotgun have used up the reserve: the countdown has
\* crossed zero, the reserve is empty and the magazine holds what was left
C14_Witness ==
    /\ call.fn = "WeaponTick"
    /\ world.pawns[playerID].weapon.id = SHOTGUN
    /\ world.pawns[playerID].weapon.reloadTimer < 0
    /\ world.pawns[playerID].weapon.ammoReserve = 0
    /\ world.pawns[playerID].weapon.ammoMag > 0
    /\ world.pawns[playerID].weapon.ammoMag < WEAPON_TABLE[SHOTGUN].magSize

\* C15: a ThrowUtility call made when the thrower's count of the requested
\* kind is 0 fails: it returns false, the three counters are unchanged and
\* no grenade is added; no counter is ever negative.
C15_ThrowFailsAtZero ==
    [][call'.fn = "ThrowUtility" =>
         LET p == world.pawns[call'.pawn]
             q == world'.pawns[call'.pawn]
             count == CASE call'.arg = "FRAG" -> p.fragCount
                        [] call'.arg = "SMOKE" -> p.smokeCount
                        [] call'.arg = "STUN" -> p.stunCount
         IN  /\ q.fragCount >= 0 /\ q.smokeCount >= 0 /\ q.stunCount >= 0
             /\ count = 0 =>
                  /\ call'.ret = "false"
                  /\ q.fragCount = p.fragCount
                  /\ q.smokeCount = p.smokeCount
                  /\ q.stunCount = p.stunCount
                  /\ world'.grenades = world.grenades]_vars

\* a second smoke was asked for after the first had gone off: refused, the
\* frag and the stun still in hand
C15_Witness ==
    /\ call.fn = "ThrowUtility" /\ call.arg = "SMOKE" /\ call.ret = "false"
    /\ world.pawns[playerID].smokeCount = 0
    /\ world.pawns[playerID].fragCount = 1
    /\ world.pawns[playerID].stunCount = 1
    /\ world.grenades = <<>>
    /\ world.smokes # <<>>

\* C16: a ThrowUtility call made with at least one charge of the requested
\* kind returns true, takes exactly one charge of that kind and none of the
\* other two, and appends exactly one grenade of that kind, not detonated,
\* owned by the thrower, with the fuse FRAG_FUSE_SEC for a frag and the
\* shorter fuse (0.8 s) for a smoke or a stun.
C16_ThrowConsumesOneCharge ==
    [][call'.fn = "ThrowUtility" =>
         LET p == world.pawns[call'.pawn]
             q == world'.pawns[call'.pawn]
             kind == call'.arg
             count == CASE kind = "FRAG" -> p.fragCount
                        [] kind = "SMOKE" -> p.smokeCount
                        [] kind = "STUN" -> p.stunCount
             one(k) == IF k = kind THEN 1 ELSE 0
         IN  count > 0 =>
               /\ call'.ret = "true"
               /\ q.fragCount = p.fragCount - one("FRAG")
               /\ q.smokeCount = p.smokeCount - one("SMOKE")
               /\ q.stunCount = p.stunCount - one("STUN")
               /\ Len(world'.grenades) = Len(world.grenades) + 1
               /\ SubSeq(world'.grenades, 1, Len(world.grenades)) = world.grenades
               /\ world'.grenades[Len(world'.grenades)] =
                     [type |-> kind,
                      fuseTimer |-> IF kind = "FRAG" THEN FRAG_FUSE_SEC ELSE OTHER_FUSE_SEC,
                      detonated |-> FALSE,
                      ownerID |-> p.id]]_vars

\* the stun was thrown while the frag thrown before it was still in flight
C16_Witness ==
    /\ call.fn = "ThrowUtility" /\ call.arg = "STUN" /\ call.ret = "true"
    /\ world.pawns[playerID].stunCount = 0
    /\ world.pawns[playerID].smokeCount = 1
    /\ Len(world.grenades) = 2
    /\ world.grenades[1].type = "FRAG"
    /\ world.grenades[1].fuseTimer < FRAG_FUSE_SEC
    /\ world.grenades[2].type = "STUN"
    /\ world.grenades[2].fuseTimer = OTHER_FUSE_SEC
    /\ world.grenades[2].ownerID = playerID

\* C17: in an UpdateUtility call in which a frag detonates, every living
\* pawn at distance d <= FRAG_RADIUS that no solid hides loses
\* floor(FRAG_DAMAGE * (1 - d / FRAG_RADIUS)) hp, floored at 0 and dying at
\* 0: FRAG_DAMAGE at d = 0, nothing at d = FRAG_RADIUS; every other pawn
\* keeps its hp and its alive flag, and so does every pawn in a call in
\* which no frag detonates.
C17_FragFalloff ==
    [][call'.fn = "UpdateUtility" =>
         LET gs == world.grenades
             frags == {k \in 1 .. Len(gs) : /\ gs[k].type = "FRAG"
                                            /\ ~gs[k].detonated
                                            /\ gs[k].fuseTimer - dt' <= 0}
         IN  /\ Cardinality(frags) <= 1
             /\ \A j \in Pawns :
                  LET p == world.pawns[j]
                      q == world'.pawns[j]
                  IN  IF \E k \in frags : /\ p.alive
                                          /\ call'.blasts[k].dist[j] <= FRAG_RADIUS
                                          /\ j \notin call'.blasts[k].blocked
                      THEN LET k == CHOOSE k \in frags : TRUE
                               d == call'.blasts[k].dist[j]
                               scaled == FRAG_DAMAGE * (FRAG_RADIUS - d)
                               lost == p.hp - q.hp
                           IN  /\ IF scaled >= p.hp * FRAG_RADIUS
                                  THEN q.hp = 0 /\ ~q.alive
                                  ELSE /\ q.alive
                                       /\ lost * FRAG_RADIUS <= scaled
                                       /\ scaled < (lost + 1) * FRAG_RADIUS
                               /\ d = 0 =>
                                    lost = IF p.hp < FRAG_DAMAGE THEN p.hp ELSE FRAG_DAMAGE
                               /\ d = FRAG_RADIUS => lost = 0
                      ELSE q.hp = p.hp /\ q.alive = p.alive]_vars

\* the frag, the only grenade in flight, went off among the pawns: team mate
\* 1, wounded before and at the blast point, is dead, pawn 2 inside the
\* radius has lost part of the damage, pawn 3 on the radius and pawn 5
\* behind a solid have lost nothing
C17_Witness ==
    /\ call.fn = "UpdateUtility"
    /\ Len(call.blasts) = 1 /\ call.blasts[1] = BlastNear
    /\ world.pawns[playerID].fragCount = 0
    /\ world.pawns[playerID].smokeCount = 1
    /\ world.pawns[playerID].stunCount = 1
    /\ world.grenades = <<>>
    /\ world.pawns[1].hp = 0 /\ ~world.pawns[1].alive
    /\ world.pawns[2].hp > MAX_HP - FRAG_DAMAGE /\ world.pawns[2].hp < MAX_HP
    /\ world.pawns[3].hp = MAX_HP
    /\ world.pawns[5].hp = MAX_HP

\* C18: a stun detonation sets the stun timer to STUN_DURATION_SEC exactly
\* when the human pawn is alive at that moment and within 1.5 x FRAG_RADIUS
\* of the blast (the decay at the end of the same UpdateUtility call then
\* takes dt off it), whatever the bots' distances; otherwise the timer only
\* decays.  The detonation changes no pawn (in a call in which no frag
\* detonates the pawns are unchanged) and no bot's brain.
C18_StunOnlyHuman ==
    [][call'.fn = "UpdateUtility" =>
         LET gs == world.grenades
             goesOff(k) == ~gs[k].detonated /\ gs[k].fuseTimer - dt' <= 0
             frags == {k \in 1 .. Len(gs) : gs[k].type = "FRAG" /\ goesOff(k)}
             stuns == {k \in 1 .. Len(gs) : gs[k].type = "STUN" /\ goesOff(k)}
             \* a frag earlier in the list has gone off before the stun does
             humanAlive(k) == IF \E f \in frags : f < k
                              THEN world'.pawns[playerID].alive
                              ELSE world.pawns[playerID].alive
             stunned == \E k \in stuns :
                           /\ humanAlive(k)
                           /\ 2 * call'.blasts[k].dist[playerID] <= 3 * FRAG_RADIUS
         IN  /\ world'.stun = IF stunned THEN STUN_DURATION_SEC - dt'
                              ELSE IF world.stun > 0 THEN world.stun - dt'
                              ELSE world.stun
             /\ frags = {} => world'.pawns = world.pawns
             /\ s_brains' = s_brains]_vars

\* the stun, the only grenade in flight, went off with the player just
\* inside one and a half radii and three bots next to it: the player is
\* stunned, every pawn is as it was
C18_Witness ==
    /\ call.fn = "UpdateUtility"
    /\ Len(call.blasts) = 1 /\ call.blasts[1] = BlastStunEdge(StunRange)
    /\ world.pawns[playerID].stunCount = 0
    /\ world.pawns[playerID].fragCount = 1
    /\ world.pawns[playerID].smokeCount = 1
    /\ world.grenades = <<>>
    /\ world.stun = STUN_DURATION_SEC - dt
    /\ \A j \in Pawns : world.pawns[j].hp = MAX_HP /\ world.pawns[j].alive
    /\ s_brains = InitBotBrains

C21_TimersNonNegative ==
    world.hitIndicatorAlpha >= 0 /\ world.stun >= 0

\* C22: a step that resets the round (the only way into WAITING) leaves,
\* whatever the state before it: no grenade, smoke or tracer, the stun and
\* hit-flash timers at 0, no capture progress and captured false, roundTimer
\* = ROUND_TIME_SEC, no round winner, every pawn alive with MAX_HP, one
\* charge of each kind, the default weapon of its team (rifle for ATTACK,
\* SMG for DEFEND) with a full magazine and three magazines in reserve, and
\* every bot brain in PATROL with no target and all countdowns at 0.
C22_ResetRoundComplete ==
    [][(world.roundState # "WAITING" /\ world'.roundState = "WAITING") =>
         /\ world'.grenades = <<>> /\ world'.smokes = <<>> /\ world'.tracers = <<>>
         /\ world'.stun = 0 /\ world'.hitIndicatorAlpha = 0
         /\ world'.objective.captureProgress = 0 /\ ~world'.objective.captured
         /\ world'.roundTimer = ROUND_TIME_SEC
         /\ world'.roundWinner = "NONE"
         /\ \A i \in Pawns :
              LET p == world'.pawns[i]
                  wid == IF i < TEAM_SIZE THEN RIFLE ELSE SMG
              IN  /\ p.alive /\ p.hp = MAX_HP
                  /\ p.fragCount = 1 /\ p.smokeCount = 1 /\ p.stunCount = 1
                  /\ p.weapon.id = wid
                  /\ p.weapon.ammoMag = WEAPON_TABLE[wid].magSize
                  /\ p.weapon.ammoReserve = 3 * WEAPON_TABLE[wid].magSize
                  /\ p.weapon.reloadTimer = 0 /\ p.weapon.fireCooldown = 0
         /\ \A i \in Pawns :
              /\ s_brains'[i].state = "PATROL" /\ s_brains'[i].targetID < 0
              /\ s_brains'[i].visionTimer = 0 /\ s_brains'[i].reactionTimer = 0
              /\ ~s_brains'[i].hasSightLine]_vars

\* the round the attackers won by shooting the three defenders has been
\* reset: the defenders are back with full hp and the player, who had taken
\* the sniper rifle, holds a full rifle again
C22_Witness ==
    /\ world.roundState = "WAITING"
    /\ world.roundNumber = 2
    /\ world.scoreAttack = 1 /\ world.scoreDefend = 0
    /\ world.freezeTimer = FREEZE_SEC
    /\ \A i \in Pawns : world.pawns[i].alive /\ world.pawns[i].hp = MAX_HP
    /\ world.pawns[playerID].weapon.id = RIFLE
    /\ world.pawns[playerID].weapon.ammoMag = WEAPON_TABLE[RIFLE].magSize
    /\ world.pawns[playerID].fragCount = 1

C24_EngageDeadTarget ==
    [][call'.fn = "UpdateBot" =>
         LET i == call'.pawn
             b == s_brains[i]
             seen == {j \in Pawns : /\ world.pawns[j].alive /\ Team(j) # Team(i)
                                    /\ call'.o.view[j] > 0}
         IN  (/\ b.state = "ENGAGE"
              /\ (b.targetID < 0 \/ ~world.pawns[b.targetID].alive)
              /\ seen = {}
              /\ world.pawns[i].hp >= BOT_RETREAT_HP) =>
                 /\ s_brains'[i].state = "PATROL"
                 /\ s_brains'[i].targetID = -1]_vars

\* C25: an update of a living bot with hp below 25% of MAX_HP and another
\* living member of its team leaves it in RETREAT, whatever its state before
\* and whatever it sees; an update of a bot not in RETREAT that has no
\* living team mate, or has 25% of MAX_HP or more, does not leave it in
\* RETREAT.
C25_RetreatTrigger ==
    [][call'.fn = "UpdateBot" =>
         LET i == call'.pawn
             low == 4 * world.pawns[i].hp < MAX_HP
             mate == \E j \in Pawns : j # i /\ Team(j) = Team(i) /\ world.pawns[j].alive
         IN  /\ (low /\ mate) => s_brains'[i].state = "RETREAT"
             /\ (~(low /\ mate) /\ s_brains[i].state # "RETREAT") =>
                   s_brains'[i].state # "RETREAT"]_vars

\* bot 3, down to 10 hp with both team mates alive, has made its vision
\* check and seen attacker 1: it has the target and is in RETREAT
C25_Witness ==
    /\ call.fn = "UpdateBot" /\ call.pawn = 3
    /\ call.o.view = Sees(1)
    /\ world.pawns[1].alive /\ world.pawns[4].alive /\ world.pawns[5].alive
    /\ world.pawns[3].hp > 0 /\ 4 * world.pawns[3].hp < MAX_HP
    /\ s_brains[3].visionTimer = BOT_VISION_PERIOD
    /\ s_brains[3].targetID = 1 /\ s_brains[3].hasSightLine
    /\ s_brains[3].state = "RETREAT"

\* C27: a bot whose update fires its weapon holds a sight line, and held it
\* in ENGAGE before that update already: dt being at most DT_MAX, shorter
\* than the reaction delay, a sight line acquired in the update itself has
\* not been held for the delay.
C27_ReactionDelay ==
    [][(/\ call'.fn = "UpdateBot"
        /\ world'.pawns[call'.pawn].weapon.ammoMag
              < world.pawns[call'.pawn].weapon.ammoMag) =>
           /\ s_brains'[call'.pawn].hasSightLine
           /\ s_brains[call'.pawn].state = "ENGAGE"
           /\ s_brains[call'.pawn].hasSightLine]_vars

\* C28: the win conditions of a frame are evaluated after the frame's bot
\* fire and utility detonations: no frame ends with the round still ACTIVE
\* and a team without a living pawn.
C28_RoundSeesFrameKills ==
    (pc = "frame" /\ world.roundState = "ACTIVE") =>
        /\ \E i \in Pawns : Team(i) = "ATTACK" /\ world.pawns[i].alive
        /\ \E i \in Pawns : Team(i) = "DEFEND" /\ world.pawns[i].alive

\* C29: a sweep from a position that does not penetrate the solid returns a
\* position at which the pawn's box does not penetrate it by more than the
\* skin, the clamp of y to the floor included.
C29_SweepLeavesSolid ==
    (call.fn = "SweepAABB" /\ ~Penetrates(call.start, call.solid, 0)) =>
        ~Penetrates(call.pos, call.solid, PHYS_SKIN)

\* C30: a pellet of a permitted WeaponFire damages at most one pawn: the
\* living pawn other than the shooter, of either team, whose box the ray
\* enters nearest and strictly in front of the nearest solid within range;
\* that pawn loses exactly the weapon's damage, hp floored at 0 and alive
\* cleared at 0.  A pawn behind a solid, beyond range, dead, or the shooter
\* itself loses nothing, whatever the number of pellets, and no pawn loses
\* more than the pellets' damage together.
C30_PelletDamage ==
    [][(/\ call'.fn = "WeaponFire"
        /\ LET ws == world.pawns[call'.pawn].weapon
           IN  ws.reloadTimer <= 0 /\ ws.fireCooldown <= 0 /\ ws.ammoMag > 0) =>
         LET sid == call'.pawn
             st == WEAPON_TABLE[world.pawns[sid].weapon.id]
             rays == call'.o.rays
             Exposed(i, ray) == /\ world.pawns[i].alive
                                /\ i # sid
                                /\ ray.box[i] > 0
                                /\ ray.box[i] < ray.geom
             Front(ray) == {i \in Pawns : /\ Exposed(i, ray)
                                          /\ \A j \in Pawns :
                                                Exposed(j, ray) => ray.box[i] <= ray.box[j]}
             Lost(i) == world.pawns[i].hp - world'.pawns[i].hp
         IN  /\ \A i \in Pawns :
                  /\ Lost(i) >= 0 /\ Lost(i) <= st.pellets * st.damage
                  /\ world'.pawns[i].hp >= 0
                  /\ world'.pawns[i].alive = (world.pawns[i].alive /\ world'.pawns[i].hp > 0)
                  /\ (\A p \in 1 .. st.pellets : ~Exposed(i, rays[p])) => Lost(i) = 0
             /\ st.pellets = 1 =>
                  /\ \A i \in Pawns \ Front(rays[1]) : Lost(i) = 0
                  /\ Front(rays[1]) # {} =>
                        \E i \in Front(rays[1]) :
                            /\ world'.pawns[i].hp = Max(0, world.pawns[i].hp - st.damage)
                            /\ \A j \in Pawns \ {i} : Lost(j) = 0]_vars

\* five rifle shots of the player: defender 3 died of four of them, and the
\* shot along the line through 3 and 4 passed the dead defender and took
\* the rifle's damage from defender 4 behind it
C30_Witness ==
    /\ call.fn = "WeaponFire" /\ call.pawn = playerID
    /\ call.o.rays[1] = RayLine(<<3, 4>>)
    /\ world.pawns[playerID].weapon.id = RIFLE
    /\ world.pawns[playerID].weapon.ammoMag = WEAPON_TABLE[RIFLE].magSize - 5
    /\ Len(world.tracers) = 5
    /\ ~world.pawns[3].alive /\ world.pawns[3].hp = 0
    /\ world.pawns[4].alive /\ world.pawns[4].hp = MAX_HP - WEAPON_TABLE[RIFLE].damage

\* C31: a bot never confirms vision of a target, and never fires at its
\* target, in an update in which the segment from its eye to that target
\* crosses an active smoke; the player's shots are not stopped by smoke (a
\* permitted shot along a ray that meets defender 3 wounds it whatever the
\* smokes).
C31_SmokeBlocksBots ==
    [][/\ call'.fn = "UpdateBot" =>
            LET i == call'.pawn
                checked == s_brains[i].visionTimer - dt' <= 0
                fired == world'.pawns[i].weapon.ammoMag < world.pawns[i].weapon.ammoMag
            IN  /\ (checked /\ s_brains'[i].hasSightLine) =>
                      s_brains'[i].targetID \notin call'.smoked
                /\ fired => s_brains'[i].targetID \notin call'.smoked
       /\ (/\ call'.fn = "WeaponFire" /\ call'.pawn = playerID
           /\ canFire(world.pawns[playerID].weapon) /\ world.pawns[3].alive) =>
            world'.pawns[3].hp < world.pawns[3].hp]_vars

\* C32: every ROUND_OVER phase lasts the full delay: the countdown stands at
\* ROUND_OVER_SEC when roundState enters ROUND_OVER, whatever round or match
\* it is; while in ROUND_OVER only UpdateRound changes it, taking dt from
\* it; and roundState leaves ROUND_OVER exactly in the UpdateRound whose dt
\* brings the countdown to 0 or below, never in an earlier one.
C32_RoundOverFullDelay ==
    [][/\ (world.roundState # "ROUND_OVER" /\ world'.roundState = "ROUND_OVER") =>
            overTimer' = ROUND_OVER_SEC
       /\ world.roundState = "ROUND_OVER" =>
            IF pc = "round"
            THEN IF overTimer - dt <= 0
                 THEN world'.roundState # "ROUND_OVER"
                 ELSE world'.roundState = "ROUND_OVER" /\ overTimer' = overTimer - dt
            ELSE world'.roundState = "ROUND_OVER" /\ overTimer' = overTimer]_vars

\* the ROUND_OVER phase of the second round, one short frame into it
C32_Witness ==
    /\ world.roundState = "ROUND_OVER"
    /\ world.roundNumber = 2
    /\ overTimer = ROUND_OVER_SEC - 2
    /\ pc = "menu"

\* C33: neither score ever exceeds MATCH_WIN_SCORE and the two are never
\* both MATCH_WIN_SCORE; every round of a match scores exactly one point
\* (the scores add up to the rounds played), so a match has at most
\* 2 * MATCH_WIN_SCORE - 1 = 9 scored rounds.
C33_ScoresBounded ==
    /\ world.scoreAttack \in 0 .. MATCH_WIN_SCORE
    /\ world.scoreDefend \in 0 .. MATCH_WIN_SCORE
    /\ ~(world.scoreAttack = MATCH_WIN_SCORE /\ world.scoreDefend = MATCH_WIN_SCORE)
    /\ world.scoreAttack + world.scoreDefend <= 2 * MATCH_WIN_SCORE - 1
    /\ world.scoreAttack + world.scoreDefend =
          IF world.roundState = "ROUND_OVER" THEN world.roundNumber
          ELSE world.roundNumber - 1

\* a match decided in its ninth round, five to four
C33_Witness ==
    /\ world.roundState = "MATCH_OVER"
    /\ world.scoreAttack = MATCH_WIN_SCORE
    /\ world.scoreDefend = MATCH_WIN_SCORE - 1
    /\ world.roundNumber = 2 * MATCH_WIN_SCORE

\* C34: if frames keep being simulated (UpdateRound is called again and
\* again, each time with dt > 0), every ACTIVE round reaches ROUND_OVER and
\* every match reaches MATCH_OVER.
C34_RoundsAndMatchesEnd ==
    ([]<>(pc = "round" /\ dt > 0)) =>
        /\ (world.roundState = "ACTIVE") ~> (world.roundState = "ROUND_OVER")
        /\ (world.roundState # "MATCH_OVER") ~> (world.roundState = "MATCH_OVER")

\* a round that nobody won before the clock ran out: the player is outside
\* the objective, everybody is alive, and the round is over for the defence
C34_Witness ==
    /\ world.roundState = "ROUND_OVER"
    /\ world.roundTimer <= 0
    /\ world.roundWinner = "DEFEND"
    /\ ~world.objective.captured
    /\ \A i \in Pawns : world.pawns[i].alive

\* C35: no step raises a pawn's hp, except a round reset, which respawns
\* every pawn with MAX_HP and puts the round in WAITING with the full freeze.
C35_HpNeverIncreases ==
    [][(\E i \in Pawns : world'.pawns[i].hp > world.pawns[i].hp) =>
          /\ world'.pawns = SpawnPawns
          /\ world'.roundState = "WAITING"
          /\ world'.freezeTimer = FREEZE_SEC
          /\ world'.grenades = <<>>]_vars

\* the round is over and the player, wounded by the frag, still has what
\* the blast left
C35_Witness ==
    /\ world.roundState = "ROUND_OVER"
    /\ overTimer < ROUND_OVER_SEC
    /\ world.pawns[playerID].alive
    /\ world.pawns[playerID].hp = MAX_HP - FRAG_DAMAGE

\* C36: an update of a living bot that has less than 25% of MAX_HP while
\* another member of its team is alive does not fire (no tracer, no pawn
\* hurt, no round taken from its magazine, its cooldown not set) and leaves
\* it in RETREAT, even when the vision check of that update found a target.
C36_LowBotNeverFires ==
    [][(/\ call'.fn = "UpdateBot"
        /\ 4 * world.pawns[call'.pawn].hp < MAX_HP
        /\ \E j \in Pawns : /\ j # call'.pawn /\ Team(j) = Team(call'.pawn)
                            /\ world.pawns[j].alive) =>
         LET i == call'.pawn
         IN  /\ s_brains'[i].state = "RETREAT"
             /\ world'.tracers = world.tracers
             /\ \A j \in Pawns : /\ world'.pawns[j].hp = world.pawns[j].hp
                                 /\ world'.pawns[j].alive = world.pawns[j].alive
             /\ world'.pawns[i].weapon.ammoMag >= world.pawns[i].weapon.ammoMag
             /\ world'.pawns[i].weapon.fireCooldown <= world.pawns[i].weapon.fireCooldown
             /\ world'.hitIndicatorAlpha = world.hitIndicatorAlpha]_vars

\* bot 3, down to 10 hp with a team mate alive, has just been updated: it
\* holds a sight line on living attacker 1 and its SMG, fired before, is
\* ready to fire, and it is in RETREAT
C36_Witness ==
    /\ call.fn = "UpdateBot" /\ call.pawn = 3
    /\ world.pawns[3].alive /\ world.pawns[3].hp = 10
    /\ world.pawns[4].alive
    /\ world.pawns[1].alive
    /\ s_brains[3].state = "RETREAT"
    /\ s_brains[3].targetID = 1 /\ s_brains[3].hasSightLine
    /\ s_brains[3].reactionTimer <= 0
    /\ world.pawns[3].weapon.ammoMag < WEAPON_TABLE[SMG].magSize
    /\ world.pawns[3].weapon.ammoMag > 0
    /\ world.pawns[3].weapon.fireCooldown <= 0
    /\ world.pawns[3].weapon.reloadTimer <= 0

\* C37: a pawn that is not alive is frozen until the next round reset: in no
\* step but a reset does its pawn record (place, hp, weapon state, utility
\* charges) or, for a bot, its brain change, so it neither moves, fires,
\* reloads, throws nor is hit by a shot or a frag; and in a round update with
\* no living attacker in the zone the capture does not advance, whatever dead
\* attackers lie in it.
C37_DeadPawnFrozen ==
    [][/\ \A i \in Pawns :
             (~world.pawns[i].alive
                 /\ ~(world'.roundState = "WAITING" /\ world.roundState # "WAITING"))
             => /\ world'.pawns[i] = world.pawns[i]
                /\ s_brains'[i] = s_brains[i]
       /\ (pc = "round" /\ world.roundState = "ACTIVE"
              /\ ~\E i \in Pawns : /\ Team(i) = "ATTACK" /\ world.pawns[i].alive
                                   /\ world.pawns[i].inZone)
             => /\ world'.objective.captureProgress <= world.objective.captureProgress
                /\ ~world'.objective.captured]_vars

\* the player and attacker 1 are dead, attacker 1 inside the zone, and the
\* round goes on around them with a shot fired
C37_Witness ==
    /\ world.roundState = "ACTIVE"
    /\ pc = "utility"
    /\ ~world.pawns[playerID].alive
    /\ ~world.pawns[1].alive /\ world.pawns[1].inZone
    /\ world.pawns[2].alive
    /\ world.tracers # <<>>

\* C38: a step taken while roundState is WAITING, ROUND_OVER or MATCH_OVER
\* that neither makes the round ACTIVE nor resets it leaves the simulation
\* as it was: no pawn's place, hp, ammo or charges, no bot's brain, no
\* grenade, smoke or tracer, neither the stun timer nor the hit flash, nor
\* the round clock, the objective or the scores change; what is left to
\* change is the freeze timer, the round-over timer and what its expiry
\* writes.  A frame that starts outside ACTIVE and does not end in ACTIVE
\* is made of such steps and resets only.
C38_FrozenOutsideActive ==
    [][(/\ world.roundState # "ACTIVE"
        /\ world'.roundState # "ACTIVE"
        /\ ~(world'.roundState = "WAITING" /\ world.roundState # "WAITING"))
       => /\ world'.pawns = world.pawns
          /\ s_brains' = s_brains
          /\ world'.grenades = world.grenades
          /\ world'.smokes = world.smokes
          /\ world'.tracers = world.tracers
          /\ world'.stun = world.stun
          /\ world'.hitIndicatorAlpha = world.hitIndicatorAlpha
          /\ world'.roundTimer = world.roundTimer
          /\ world'.objective = world.objective
          /\ world'.scoreAttack = world.scoreAttack
          /\ world'.scoreDefend = world.scoreDefend]_vars

\* the match is over after frames spent in ROUND_OVER, and a grenade in
\* flight, a smoke, a tracer, the stun and the hit flash are as the last
\* ACTIVE frame left them
C38_Witness ==
    /\ world.roundState = "MATCH_OVER"
    /\ pc = "frame"
    /\ world.grenades # <<>>
    /\ world.smokes # <<>>
    /\ world.tracers # <<>>
    /\ world.stun > 0
    /\ world.hitIndicatorAlpha > 0

\* C39: the player's input is gated on roundState as it is before the round
\* update, the bots and the utility on roundState as it is after it.  A call
\* of ProcessInput in WAITING changes nothing, so in the frame in which the
\* freeze ends the player has not acted, and until the next frame's input the
\* player's weapon and charges are as spawned and no grenade is in flight;
\* the round update that ends the freeze goes on to the bots, first bot 1,
\* and every bot updated in that frame makes its vision check.  The round
\* update that turns ACTIVE into ROUND_OVER, which comes after the input of
\* its frame, goes past the bots and the utility; bots and utility are never
\* updated unless the round is ACTIVE.
C39_InputGatedBeforeBotsAfter ==
    /\ [][/\ (pc = "input" /\ world.roundState = "WAITING")
               => (world' = world /\ audioLog' = <<>>)
          /\ (pc = "round" /\ world.roundState = "WAITING" /\ world'.roundState = "ACTIVE")
               => (pc' = "bots" /\ botIdx' = 1 /\ world'.pawns = world.pawns)
          /\ (pc = "bots" /\ world.roundTimer = ROUND_TIME_SEC)
               => s_brains'[botIdx].visionTimer = BOT_VISION_PERIOD
          /\ (pc = "round" /\ world.roundState = "ACTIVE" /\ world'.roundState = "ROUND_OVER")
               => /\ pc' = "menu"
                  /\ s_brains' = s_brains
                  /\ world'.pawns = world.pawns
                  /\ world'.grenades = world.grenades
                  /\ world'.tracers = world.tracers]_vars
    /\ [](pc \in {"bots", "utility"} => world.roundState = "ACTIVE")
    /\ []((world.roundState = "ACTIVE" /\ world.roundTimer = ROUND_TIME_SEC /\ pc # "round")
            => /\ world.pawns[playerID].weapon = SpawnPawns[playerID].weapon
               /\ world.pawns[playerID].fragCount = 1
               /\ world.pawns[playerID].smokeCount = 1
               /\ world.pawns[playerID].stunCount = 1
               /\ world.grenades = <<>>)

\* the round has just gone from ACTIVE to ROUND_OVER in a frame in which the
\* player threw the frag, whose fuse no utility update has shortened, after
\* defender 3 had shot the player in the frame that ended the freeze or later
C39_Witness ==
    /\ world.roundState = "ROUND_OVER"
    /\ pc = "menu"
    /\ overTimer = ROUND_OVER_SEC
    /\ Len(world.grenades) = 1
    /\ world.grenades[1].fuseTimer = FRAG_FUSE_SEC
    /\ world.pawns[playerID].hp < MAX_HP

\* C40: in every state roundWinner is NONE exactly when roundState is WAITING
\* or ACTIVE, and objective.captured is set only when roundState is
\* ROUND_OVER or MATCH_OVER and roundWinner is ATTACK.
C40_WinnerMatchesRoundState ==
    /\ (world.roundWinner = "NONE") <=> (world.roundState \in {"WAITING", "ACTIVE"})
    /\ world.objective.captured =>
          /\ world.roundState \in {"ROUND_OVER", "MATCH_OVER"}
          /\ world.roundWinner = "ATTACK"

\* the match is over, its last round won by capture, after rounds that the
\* defenders won on the clock
C40_Witness ==
    /\ world.roundState = "MATCH_OVER"
    /\ world.objective.captured
    /\ world.roundWinner = "ATTACK"
    /\ world.scoreDefend > 0

====
